---- MODULE Spec2Model ----
(***************************************************************************)
(* A model of gounknown/logrotate: the rotating file sink of               *)
(* src/logrotate.go (Logger: New, Write, write, writeLoop, mill, millLoop, *)
(* millRunOnce, getLogFiles, openExistingOrNew, openNew,                   *)
(* evalCurrentFilename, incrCurrSequence, Close, close, Rotate, rotate)    *)
(* and the helpers of src/util.go (genBaseFilename, evalCurrRotationTime,  *)
(* parseGlobPattern, byModTime.Less, link).                                *)
(*                                                                         *)
(* A file name is a sequence of tokens: literal chunks ("log"), the dot    *)
(* "." and decimal digits "0".."9".  Times are whole seconds.              *)
(***************************************************************************)
EXTENDS Integers, Sequences, FiniteSets, TLC

VARIABLES
    opts,              \* Logger.opts: the options, read-only after New
    tzOffsetSeconds,   \* Logger.tzOffsetSeconds, captured by New
    file,              \* Logger.file: the current handle, or NoFile
    size,              \* Logger.size
    currRotationTime,  \* Logger.currRotationTime
    currFilename,      \* Logger.currFilename
    currBaseFilename,  \* Logger.currBaseFilename
    currSequence,      \* Logger.currSequence
    mu,                \* Logger.mu: the process holding the lock, or Free
    wg,                \* Logger.wg: the wait-group counter
    writeCh,           \* Logger.writeCh: the queued record copies
    millCh,            \* Logger.millCh: number of pending triggers (0 or 1)
    quit,              \* Logger.quit: TRUE once the channel is closed
    discards,          \* Logger.metrics.Discards
    denied,            \* TRUE while the directory refuses stat, lstat and open
    clock,             \* the Clock: [unix |-> seconds, zone |-> location]
    fs,                \* the directory: name -> [content, mtime, kind, target]
    orphan,            \* the open file's inode once its name was removed
    pc,                \* position of every process (producers and workers)
    arg,               \* the record a process is writing, with the call's locals
    drain,             \* the workers that have seen quit and started their timer
    millFiles,         \* the mill worker's local list of enumerated files
    panicked,          \* TRUE once a goroutine has panicked
    calls,             \* counters of the calls made and of the records enqueued
    last,              \* what the last completed step of a call did (history)
    opened,            \* the names opened so far, each with its base (history)
    dir0               \* the directory as New found it (history)

vars == <<opts, tzOffsetSeconds, file, size, currRotationTime, currFilename,
          currBaseFilename, currSequence, mu, wg, writeCh, millCh, quit,
          discards, denied, clock, fs, orphan, pc, arg, drain, millFiles, panicked,
          calls, last, opened, dir0>>

----------------------------------------------------------------------------
(* Bounds of the model.                                                    *)
MaxTime == 2        \* the clock runs from 0 to MaxTime
MaxWrites == 2      \* Write calls made by the producers
MaxRotates == 1     \* Rotate calls made by the producers
MaxCloses == 2      \* Close calls made by the producers
MaxFaults == 1      \* failures of filesystem calls, removals and chmods
MaxForced == 3      \* Rotate calls made on the logger that is only rotated
MaxQueued == 3      \* Write calls made on the buffered logger of one producer
MaxPattern == 5     \* characters of a pattern handed to parseGlobPattern

Producers == {"p1", "p2"}
Writer == "writeLoop"
Miller == "millLoop"
Procs == Producers \cup {Writer, Miller}

Free == "free"
NoFile == [path |-> <<>>, open |-> FALSE]
NoOrphan == [is |-> FALSE, data |-> <<>>, by |-> "nobody"]
NoName == <<>>      \* the empty string

----------------------------------------------------------------------------
(* Strings: decimal formatting and parsing, filepath.Ext.                  *)
Digits == <<"0", "1", "2", "3", "4", "5", "6", "7", "8", "9">>

RECURSIVE Decimal(_)
\* fmt.Sprintf("%d", n) for n >= 0
Decimal(n) ==
    IF n < 10 THEN <<Digits[n + 1]>>
    ELSE Decimal(n \div 10) \o <<Digits[(n % 10) + 1]>>

IsDigit(c) == \E i \in 1..10 : Digits[i] = c
DigitValue(c) == CHOOSE i \in 0..9 : Digits[i + 1] = c

RECURSIVE AtoiAcc(_, _)
AtoiAcc(s, acc) ==
    IF s = <<>> THEN acc
    ELSE AtoiAcc(Tail(s), acc * 10 + DigitValue(Head(s)))

\* strconv.Atoi with the error dropped: 0 unless s is a run of digits
Atoi(s) ==
    IF s # <<>> /\ \A i \in 1..Len(s) : IsDigit(s[i]) THEN AtoiAcc(s, 0) ELSE 0

\* filepath.Ext: the suffix starting at the last dot, "" without a dot
Ext(path) ==
    LET dots == {i \in 1..Len(path) : path[i] = "."}
    IN IF dots = {} THEN <<>>
       ELSE LET d == CHOOSE i \in dots : \A j \in dots : j <= i
            IN SubSeq(path, d, Len(path))

\* strings.TrimPrefix(s, ".")
TrimDot(s) == IF s # <<>> /\ Head(s) = "." THEN Tail(s) ELSE s

----------------------------------------------------------------------------
(* The clock and the naming engine (src/util.go).                          *)

\* A location: the zone offset in force at instant t (seconds)
OffsetAt(zone, t) == IF t < zone.switch THEN zone.before ELSE zone.after

\* now.Zone() of clock.Now()
NowOffset(clk) == OffsetAt(clk.zone, clk.unix)

\* Go's remainder: the sign of the dividend
GoMod(a, b) == IF a >= 0 THEN a % b ELSE -((-a) % b)

evalCurrRotationTime(clk, tzOffset, interval) ==
    LET now == clk.unix + tzOffset
    IN now - GoMod(now, interval)

\* The expansion of the time directive: the wall-clock second
FormatTime(wall) == IF wall < 0 THEN <<"-">> \o Decimal(-wall) ELSE Decimal(wall)

RECURSIVE FormatString(_, _)
\* strftime.FormatString: a pattern is a sequence of characters (a token
\* without "%" or "*" in it stands for a run of them); "%" with "t" after
\* it is the directive replaced by the formatted time, "%" with "%" after it
\* is one "%"; New accepts no other directive
FormatString(pattern, wall) ==
    IF pattern = <<>> THEN <<>>
    ELSE IF Head(pattern) = "%" /\ Len(pattern) >= 2
    THEN (IF pattern[2] = "t" THEN FormatTime(wall) ELSE <<pattern[2]>>)
         \o FormatString(SubSeq(pattern, 3, Len(pattern)), wall)
    ELSE <<Head(pattern)>> \o FormatString(Tail(pattern), wall)

genBaseFilename(pattern, clk, rotationTime) ==
    LET offset == NowOffset(clk)
        t == rotationTime - offset
        wall == t + OffsetAt(clk.zone, t)      \* t.In(now.Location())
    IN FormatString(pattern, wall)

\* the closure genFilename of evalCurrentFilename
\* a name that carries the sequence even when it is 0
genFilenameAlways(basename, seq) == basename \o <<".">> \o Decimal(seq)

\* lines 743-749: the closure genFilename of evalCurrentFilename
genFilename(basename, seq) ==
    IF seq = 0 THEN basename ELSE basename \o <<".">> \o Decimal(seq)

\* int64(opts.maxInterval.Seconds())
maxIntervalSeconds == opts.maxInterval

----------------------------------------------------------------------------
(* The filesystem.                                                         *)

Exists(dir, name) == name \in DOMAIN dir

\* os.Stat as the Logger uses it: "ok", "notexist" or "perm"
osStat(dir, name) ==
    IF denied THEN "perm"
    ELSE IF ~Exists(dir, name) THEN "notexist"
    ELSE IF dir[name].kind = "symlink" /\ ~Exists(dir, dir[name].target)
         THEN "notexist"
    ELSE "ok"

RegularFile(content, mtime) ==
    [content |-> content, mtime |-> mtime, kind |-> "file", target |-> NoName]

SymlinkFile(target, mtime) ==
    [content |-> <<>>, mtime |-> mtime, kind |-> "symlink", target |-> target]

PutFile(dir, name, f) == (name :> f) @@ dir

RemoveFile(dir, name) == [n \in (DOMAIN dir) \ {name} |-> dir[n]]

----------------------------------------------------------------------------
(* The rotation core.  The code of one call runs under Logger.mu; it is    *)
(* modelled as operators on a record s holding the fields the call reads   *)
(* and writes, the directory, and the error the last callee returned.      *)
(* closeFail = k (openFail = k) makes the k-th file.Close (the k-th        *)
(* os.OpenFile of openNew) of the call fail; appendFail makes the          *)
(* os.OpenFile for append fail.                                            *)

NoPlan == [closeFail |-> 0, openFail |-> 0, appendFail |-> FALSE]

Start(plan) ==
    [file |-> file, size |-> size, currRotationTime |-> currRotationTime,
     currFilename |-> currFilename, currBaseFilename |-> currBaseFilename,
     currSequence |-> currSequence, millCh |-> millCh, fs |-> fs,
     orphan |-> orphan, opened |-> opened, rots |-> <<>>,
     closeFail |-> plan.closeFail, openFail |-> plan.openFail,
     appendFail |-> plan.appendFail,
     filename |-> NoName, over |-> FALSE, err |-> "nil", reopens |-> 0]

\* a send that queues every trigger
millQueued(s) == [s EXCEPT !.millCh = @ + 1]

\* mill: a non-blocking send on the 1-slot channel
mill(s) == [s EXCEPT !.millCh = 1]

\* close: closes the file if it is open
close(s) ==
    IF ~s.file.open THEN [s EXCEPT !.err = "nil"]
    ELSE [s EXCEPT !.file = NoFile, !.size = 0, !.orphan = NoOrphan,
                   !.err = IF s.closeFail = 1 THEN "close" ELSE "nil",
                   !.closeFail = IF s.closeFail > 0 THEN s.closeFail - 1 ELSE 0]

\* a sequence that counts on past maxSequence
incrCurrSequenceUncapped(seq) == [seq |-> seq + 1, over |-> FALSE]

\* incrCurrSequence: the next sequence and whether the cap was hit
incrCurrSequence(seq) ==
    IF opts.maxSequence > 0 /\ seq + 1 > opts.maxSequence
    THEN [seq |-> opts.maxSequence, over |-> TRUE]
    ELSE [seq |-> seq + 1, over |-> FALSE]

\* a rotation that takes the next sequence without looking for a free name
ProbeSequenceOnce(dir, base, seq, over) == [seq |-> seq, over |-> over]

RECURSIVE ProbeSequence(_, _, _, _)
\* the loop of evalCurrentFilename under forceNewFile
ProbeSequence(dir, base, seq, over) ==
    IF over THEN [seq |-> seq, over |-> TRUE]
    ELSE IF osStat(dir, genFilename(base, seq)) # "ok"
         THEN [seq |-> seq, over |-> FALSE]
    ELSE LET i == incrCurrSequence(seq)
         IN ProbeSequence(dir, base, i.seq, i.over)

\* a sequence that survives the change of the base filename
NextSequenceNoReset(s, writeLen, forceNewFile, changed) ==
    IF forceNewFile \/ (opts.maxSize > 0 /\ s.size + writeLen > opts.maxSize)
    THEN incrCurrSequence(s.currSequence)
    ELSE [seq |-> s.currSequence, over |-> FALSE]

\* a rotation that keeps the sequence when a new file is forced
NextSequenceUnforced(s, writeLen, forceNewFile, changed) ==
    IF changed THEN [seq |-> 0, over |-> FALSE]
    ELSE IF opts.maxSize > 0 /\ s.size + writeLen > opts.maxSize
         THEN incrCurrSequence(s.currSequence)
    ELSE [seq |-> s.currSequence, over |-> FALSE]

\* lines 733-741: the sequence restarts under a new base, and moves on when
\* a new file is forced or the record does not fit
NextSequence(s, writeLen, forceNewFile, changed) ==
    IF changed THEN [seq |-> 0, over |-> FALSE]
    ELSE IF forceNewFile
            \/ (opts.maxSize > 0 /\ s.size + writeLen > opts.maxSize)
         THEN incrCurrSequence(s.currSequence)
    ELSE [seq |-> s.currSequence, over |-> FALSE]

\* a rotation time that follows the clock when there is no interval
NextRotationTimeOfClock(s, interval) ==
    IF interval > 0
    THEN evalCurrRotationTime(clock, tzOffsetSeconds, interval)
    ELSE clock.unix

\* lines 713-730: the rotation time is the truncated time when there is an
\* interval, and otherwise the time of the first use
NextRotationTime(s, interval) ==
    IF interval > 0
    THEN evalCurrRotationTime(clock, tzOffsetSeconds, interval)
    ELSE IF s.currBaseFilename = NoName /\ s.currRotationTime = 0
         THEN clock.unix
    ELSE s.currRotationTime

evalCurrentFilename(s, writeLen, forceNewFile) ==
    LET interval == maxIntervalSeconds
        rt == NextRotationTime(s, interval)
        baseFilename ==
              IF s.currBaseFilename = NoName
                 \/ (interval > 0 /\ s.currRotationTime # rt)
              THEN genBaseFilename(opts.pattern, clock, rt)
              ELSE s.currBaseFilename
        first == NextSequence(s, writeLen, forceNewFile,
                              baseFilename # s.currBaseFilename)
        final == IF forceNewFile
                 THEN ProbeSequence(s.fs, baseFilename, first.seq, first.over)
                 ELSE first
        filename == genFilename(baseFilename, final.seq)
    IN [s EXCEPT !.currRotationTime = rt, !.currBaseFilename = baseFilename,
                 !.currSequence = final.seq, !.currFilename = filename,
                 !.filename = filename, !.over = final.over]

\* openNew: create or truncate filename and make it the current file
openNew(s, filename) ==
    IF denied \/ s.openFail = 1
    THEN [s EXCEPT !.err = "open",
                   !.openFail = IF s.openFail > 0 THEN s.openFail - 1 ELSE 0]
    ELSE [s EXCEPT !.fs = PutFile(s.fs, filename, RegularFile(<<>>, clock.unix)),
                   !.file = [path |-> filename, open |-> TRUE],
                   !.size = 0, !.orphan = NoOrphan,
                   !.opened = s.opened \cup {[name |-> filename,
                                               base |-> s.currBaseFilename]},
                   !.openFail = IF s.openFail > 0 THEN s.openFail - 1 ELSE 0,
                   !.err = "nil"]

\* what a successful rotation did: the file it opened, whether that file
\* existed before, and where the rotation came from
Rotation(s, s3) ==
    [name |-> s3.currFilename, base |-> s3.currBaseFilename,
     existed |-> Exists(s.fs, s3.currFilename), size |-> s3.size,
     exists |-> Exists(s3.fs, s3.currFilename),
     empty |-> s3.fs[s3.currFilename].content = <<>>,
     from |-> s.currFilename, fromSeq |-> s.currSequence,
     sameBase |-> s.currBaseFilename = s3.currBaseFilename]

\* rotate: close the current file, open the next one, trigger the mill
rotate(s) ==
    LET Opened(s3) ==
            IF s3.err # "nil" THEN s3
            ELSE [mill(s3) EXCEPT !.rots = Append(s3.rots, Rotation(s, s3))]
        Named(s2) == Opened(openNew(s2, s2.filename))
        Closed(s1) ==
            IF s1.err # "nil" THEN s1
            ELSE Named(evalCurrentFilename(s1, 0, TRUE))
    IN Closed(close(s))

\* an open of the existing file that truncates it
openTruncating(s, filename) == openNew(s, filename)

\* os.OpenFile(filename, O_APPEND|O_WRONLY): the existing file is reused
openAppend(s, filename) ==
    IF s.appendFail THEN openNew(s, filename)
    ELSE [s EXCEPT !.file = [path |-> filename, open |-> TRUE],
                   !.size = Len(s.fs[filename].content),
                   !.orphan = NoOrphan,
                   !.opened = s.opened \cup {[name |-> filename,
                                               base |-> s.currBaseFilename]},
                   !.err = "nil"]

\* openExistingOrNew without its deferred mill()
openExistingOrNewBody(s, writeLen) ==
    LET Stat(s2, st) ==
            IF s2.over \/ st = "notexist" THEN openNew(s2, s2.filename)
            ELSE IF st # "ok" THEN [s2 EXCEPT !.err = "get logfile info: stat"]
            ELSE IF opts.maxSize > 0
                    /\ Len(s2.fs[s2.filename].content) + writeLen >= opts.maxSize
                 THEN rotate(s2)
            ELSE openAppend(s2, s2.filename)
        Named(s2) == Stat(s2, osStat(s2.fs, s2.filename))
        Closed(s1) ==
            IF s1.err # "nil" THEN s1
            ELSE Named(evalCurrentFilename(s1, writeLen, FALSE))
    IN Closed(close(s))

openExistingOrNew(s, writeLen) ==
    mill(openExistingOrNewBody([s EXCEPT !.reopens = @ + 1], writeLen))

----------------------------------------------------------------------------
(* Logger.write, in two steps: everything before l.file.Write (the file    *)
(* freshness check and the two rotation factors), then l.file.Write and    *)
(* the recovery.  The lock is held from the first step to the second.      *)

\* a size test that already fires when the record exactly fills the file
SizeTriggerAtLeast(s, writeLen) ==
    opts.maxSize > 0 /\ s.size + writeLen >= opts.maxSize

\* line 477: l.opts.maxSize > 0 && l.size+writeLen > l.opts.maxSize
SizeTrigger(s, writeLen) ==
    opts.maxSize > 0 /\ s.size + writeLen > opts.maxSize

\* an interval test that never fires
IntervalTriggerOff(s) == FALSE

\* lines 481-482: the interval is enabled and its truncation has moved on
IntervalTrigger(s) ==
    /\ maxIntervalSeconds > 0
    /\ s.currRotationTime #
           evalCurrRotationTime(clock, tzOffsetSeconds, maxIntervalSeconds)

\* a freshness check that reopens the file on every stat error
writeFreshnessReopening(s, writeLen) ==
    LET Stat(st) ==
            IF ~s.file.open \/ st # "ok" THEN openExistingOrNew(s, writeLen)
            ELSE [s EXCEPT !.err = "nil"]
    IN Stat(osStat(s.fs, s.currFilename))

\* a freshness check that never looks at the name
writeFreshnessByHandle(s, writeLen) ==
    IF ~s.file.open THEN openExistingOrNew(s, writeLen)
    ELSE [s EXCEPT !.err = "nil"]

\* a freshness check that only looks at the name and never at l.file
writeFreshnessByName(s, writeLen) ==
    LET Stat(st) ==
            IF s.currFilename = NoName \/ st = "notexist"
            THEN openExistingOrNew(s, writeLen)
            ELSE IF st # "ok" THEN [s EXCEPT !.err = "stat"]
            ELSE [s EXCEPT !.err = "nil"]
    IN Stat(osStat(s.fs, s.currFilename))

\* lines 465-475: reopen when there is no handle or the file is gone
writeFreshness(s, writeLen) ==
    LET Stat(st) ==
            IF ~s.file.open \/ st = "notexist" THEN openExistingOrNew(s, writeLen)
            ELSE IF st # "ok" THEN [s EXCEPT !.err = "stat"]
            ELSE [s EXCEPT !.err = "nil"]
    IN Stat(osStat(s.fs, s.currFilename))

\* lines 476-489: Factor 1 (MaxSize), else Factor 2 (MaxInterval); both
\* branches call rotate
writeFactors(s, writeLen) ==
    IF SizeTrigger(s, writeLen) \/ IntervalTrigger(s) THEN rotate(s) ELSE s

\* lines 465-489 given the outcome s1 of the freshness check
writePrepare(s1, writeLen) ==
    IF s1.err # "nil" THEN s1 ELSE writeFactors(s1, writeLen)

\* the content of the inode behind the handle
HandleContent(s) ==
    IF s.orphan.is THEN s.orphan.data ELSE s.fs[s.file.path].content

\* os.File.Write of the first wn bytes of data on the current handle
fileWrite(s, data, wn) ==
    LET part == SubSeq(data, 1, wn)
    IN IF wn = 0 THEN s
       ELSE IF s.orphan.is
       THEN [s EXCEPT !.orphan.data = s.orphan.data \o part]
       ELSE [s EXCEPT !.fs = PutFile(s.fs, s.file.path,
                                RegularFile(s.fs[s.file.path].content \o part,
                                            clock.unix))]

\* a write that, after a short l.file.Write, reopens the file and writes
\* the record again
writeIORetrying(s, b, wn) ==
    LET Recovered(s3) ==
            IF s3.err # "nil" THEN [s3 EXCEPT !.err = "write+" \o s3.err]
            ELSE [fileWrite(s3, b, Len(b)) EXCEPT !.size = s3.size + Len(b),
                                                  !.err = "write"]
        Written(s1) ==
            IF wn = Len(b) THEN [s1 EXCEPT !.size = s.size + wn, !.err = "nil"]
            ELSE Recovered(openExistingOrNew([s1 EXCEPT !.size = s.size + wn],
                                             Len(b)))
    IN Written(fileWrite(s, b, wn))

\* a write that takes a short l.file.Write for a complete one
writeIOUnchecked(s, b, wn) ==
    [fileWrite(s, b, wn) EXCEPT !.size = s.size + wn, !.err = "nil"]

\* lines 491-503: write, account, and on error one recovery attempt
writeIO(s, b, wn) ==
    LET Recovered(s3) ==
            IF s3.err # "nil" THEN [s3 EXCEPT !.err = "write+" \o s3.err]
            ELSE [s3 EXCEPT !.err = "write"]
        Written(s1) ==
            IF wn = Len(b) THEN [s1 EXCEPT !.size = s.size + wn, !.err = "nil"]
            ELSE Recovered(openExistingOrNew([s1 EXCEPT !.size = s.size + wn],
                                             Len(b)))
    IN Written(fileWrite(s, b, wn))

----------------------------------------------------------------------------
(* The mill: glob, enumeration, ordering, symlink and retention.           *)

\* the letters that stand after "%" in the patterns of the tests
Letters == {"t", "Y", "m", "d", "H", "M", "S"}

\* the class [%+A-Za-z] of the first regexp
IsVerb(c) == c \in {"%", "+"} \cup Letters

RECURSIVE ReplaceDirectives(_)
\* regexp %[%+A-Za-z] replaced by "*": the leftmost match first, the next
\* match sought after it
ReplaceDirectives(p) ==
    IF p = <<>> THEN <<>>
    ELSE IF Head(p) = "%" /\ Len(p) >= 2 /\ IsVerb(p[2])
    THEN <<"*">> \o ReplaceDirectives(SubSeq(p, 3, Len(p)))
    ELSE <<Head(p)>> \o ReplaceDirectives(Tail(p))

\* a second pass that leaves every "*" where it is
KeepStars(g) == g

RECURSIVE CollapseStars(_)
\* regexp \*+ replaced by "*"
CollapseStars(g) ==
    IF Len(g) < 2 THEN g
    ELSE IF g[1] = "*" /\ g[2] = "*" THEN CollapseStars(Tail(g))
    ELSE <<Head(g)>> \o CollapseStars(Tail(g))

parseGlobPattern(pattern) == CollapseStars(ReplaceDirectives(pattern))

RECURSIVE GlobMatch(_, _)
\* filepath.Match within one directory
GlobMatch(g, name) ==
    IF g = <<>> THEN name = <<>>
    ELSE IF Head(g) = "*"
         THEN GlobMatch(Tail(g), name)
              \/ (name # <<>> /\ GlobMatch(g, Tail(name)))
    ELSE name # <<>> /\ Head(name) = Head(g) /\ GlobMatch(Tail(g), Tail(name))

globPattern == parseGlobPattern(opts.pattern)

\* the closure parseSuffixSeq of byModTime.Less
parseSuffixSeq(path) == Atoi(TrimDot(Ext(path)))

\* byModTime.Less
Less(a, b) ==
    IF a.mtime = b.mtime
    THEN parseSuffixSeq(a.path) > parseSuffixSeq(b.path)
    ELSE a.mtime > b.mtime

RECURSIVE AnyOrder(_)
\* the files of a set in every order
AnyOrder(S) ==
    IF S = {} THEN {<<>>}
    ELSE UNION {{<<x>> \o q : q \in AnyOrder(S \ {x})} : x \in S}

RECURSIVE SortedByModTime(_)
\* the orders sort.Sort may leave a set of files in
SortedByModTime(S) ==
    IF S = {} THEN {<<>>}
    ELSE UNION {{<<x>> \o q : q \in SortedByModTime(S \ {x})} :
                   x \in {y \in S : \A z \in S : ~Less(z, y)}}

\* an enumeration that keeps the symbolic links
getLogFilesAll(dir) ==
    IF denied THEN {<<>>}
    ELSE SortedByModTime({[path |-> n, mtime |-> dir[n].mtime] :
             n \in {m \in DOMAIN dir : GlobMatch(globPattern, m)}})

\* getLogFiles: the regular files matching the glob, newest first
getLogFiles(dir) ==
    IF denied THEN {<<>>}
    ELSE SortedByModTime({[path |-> n, mtime |-> dir[n].mtime] :
             n \in {m \in DOMAIN dir :
                       GlobMatch(globPattern, m) /\ dir[m].kind # "symlink"}})

\* Paths: a path is a sequence of tokens in which "/" is the separator
Sep == "/"

\* the index of the last separator of path, 0 without one
LastSep(path) ==
    LET seps == {i \in 1..Len(path) : path[i] = Sep}
    IN IF seps = {} THEN 0 ELSE CHOOSE i \in seps : \A j \in seps : j <= i

\* filepath.Dir of a clean path
Dir(path) ==
    LET i == LastSep(path)
    IN IF i = 0 THEN <<".">> ELSE IF i = 1 THEN <<Sep>> ELSE SubSeq(path, 1, i - 1)

\* filepath.Base of a clean path
Base(path) == SubSeq(path, LastSep(path) + 1, Len(path))

\* strings.Contains
Contains(s, substr) ==
    \E i \in 0..(Len(s) - Len(substr)) : SubSeq(s, i + 1, i + Len(substr)) = substr

IsAbs(path) == path # <<>> /\ path[1] = Sep

RECURSIVE Split(_)
\* the elements of a clean path between its separators, in order
Split(path) ==
    IF path = <<>> THEN <<>>
    ELSE IF Head(path) = Sep THEN Split(Tail(path))
    ELSE LET seps == {i \in 1..Len(path) : path[i] = Sep}
             end == IF seps = {} THEN Len(path) + 1
                    ELSE CHOOSE i \in seps : \A j \in seps : i <= j
         IN <<SubSeq(path, 1, end - 1)>> \o Split(SubSeq(path, end + 1, Len(path)))

RECURSIVE Join(_)
\* the elements joined by separators
Join(elems) ==
    IF elems = <<>> THEN <<>>
    ELSE IF Len(elems) = 1 THEN elems[1]
    ELSE elems[1] \o <<Sep>> \o Join(Tail(elems))

\* filepath.Rel of two clean paths: an error when one is absolute and the
\* other is not, or when basepath leads upwards
Rel(basepath, targpath) ==
    LET b == IF basepath = <<".">> THEN <<>> ELSE Split(basepath)
        g == IF targpath = <<".">> THEN <<>> ELSE Split(targpath)
        shared == {k \in 0..Len(b) : k <= Len(g) /\ SubSeq(b, 1, k) = SubSeq(g, 1, k)}
        common == CHOOSE k \in shared : \A j \in shared : j <= k
        ups == [i \in 1..(Len(b) - common) |-> <<"..">>]
    IN IF IsAbs(basepath) # IsAbs(targpath)
          \/ \E i \in (common + 1)..Len(b) : b[i] = <<"..">>
       THEN [path |-> <<>>, err |-> "rel"]
       ELSE IF common = Len(b) /\ common = Len(g)
       THEN [path |-> <<".">>, err |-> "nil"]
       ELSE [path |-> Join(ups \o SubSeq(g, common + 1, Len(g))), err |-> "nil"]

\* lines 143-153 of link: the destination stored in the symlink
linkDest(filename, symlink) ==
    IF Contains(symlink, Dir(filename))
    THEN Rel(Dir(symlink), filename)
    ELSE [path |-> filename, err |-> "nil"]

\* link: the symlink is replaced by one to the destination
link(dir, filename, symlink) ==
    LET Linked(dest) ==
            IF dest.err # "nil" THEN [fs |-> dir, err |-> "link"]
            ELSE [fs |-> PutFile(dir, symlink,
                                 SymlinkFile(dest.path, clock.unix)),
                  err |-> "nil"]
    IN IF denied THEN [fs |-> dir, err |-> "link"]
       ELSE Linked(linkDest(filename, symlink))

\* a retention that only looks at the age of the files
RemovalsByAge(files) ==
    LET cutoff == clock.unix - opts.maxAge
    IN IF opts.maxAge > 0
       THEN {files[i].path : i \in {j \in 1..Len(files) : files[j].mtime < cutoff}}
       ELSE {}

\* a retention that only counts the files
RemovalsByCount(files) ==
    IF opts.maxBackups > 0 /\ opts.maxBackups < Len(files)
    THEN {files[i].path : i \in (opts.maxBackups + 1)..Len(files)}
    ELSE {}

\* the files millRunOnce removes (lines 591-615)
Removals(files) ==
    LET cutoff == clock.unix - opts.maxAge
        aged == IF opts.maxAge > 0
                THEN {i \in 1..Len(files) : files[i].mtime < cutoff} ELSE {}
        remaining == SelectSeq(files, LAMBDA f :
                         ~(opts.maxAge > 0 /\ f.mtime < cutoff))
        surplus == IF opts.maxBackups > 0 /\ opts.maxBackups < Len(remaining)
                   THEN {remaining[i].path :
                            i \in (opts.maxBackups + 1)..Len(remaining)}
                   ELSE {}
    IN {files[i].path : i \in aged} \cup surplus

\* os.Remove of every path in paths; an open file keeps its inode
RemoveAll(dir, paths) ==
    IF denied THEN dir ELSE [n \in (DOMAIN dir) \ paths |-> dir[n]]

\* the open file's inode after who removed every path in paths
OrphanAfter(dir, paths, who) ==
    IF ~denied /\ file.open /\ ~orphan.is /\ file.path \in paths
       /\ Exists(dir, file.path)
    THEN [is |-> TRUE, data |-> dir[file.path].content, by |-> who]
    ELSE orphan

----------------------------------------------------------------------------
(* Configurations and the state after New.                                 *)

PatStatic == <<"log">>                \* "log": no directive
PatTimed == <<"log", "%", "t">>           \* "log%t": the time appended
LinkName == <<"current">>

UTC == [before |-> 0, after |-> 0, switch |-> 0]

\* a day of Day seconds, and two locations at fixed offsets east and west
\* of UTC (for 24 h, +9 h and -10 h)
Day == 4
Tokyo == [before |-> 3, after |-> 3, switch |-> 0]
Honolulu == [before |-> -3, after |-> -3, switch |-> 0]

Config(pattern, interval, sequence, maxsize, age, backups, chsize, symlink) ==
    [pattern |-> pattern, maxInterval |-> interval, maxSequence |-> sequence,
     maxSize |-> maxsize, maxAge |-> age, maxBackups |-> backups,
     writeChSize |-> chsize, symlink |-> symlink]

\* a record of len bytes, each byte the tag
Record(len, tag) == [i \in 1..len |-> tag]

\* the tag of a record: its first byte
Tag(data) == IF data = <<>> THEN 0 ELSE data[1]

\* the lengths of the records Write is called with
Lens == {1, 3}

Plans ==
    {NoPlan,
     [NoPlan EXCEPT !.closeFail = 1], [NoPlan EXCEPT !.closeFail = 2],
     [NoPlan EXCEPT !.openFail = 1], [NoPlan EXCEPT !.openFail = 2],
     [NoPlan EXCEPT !.appendFail = TRUE]}

NoArg == [data |-> <<>>, t0 |-> 0, size0 |-> 0, rotationTime0 |-> 0,
          rots0 |-> 0,
          prevName |-> NoName, rots |-> <<>>, afterClose |-> FALSE,
          gone |-> FALSE, name0 |-> NoName, base0 |-> NoName, seq0 |-> 0,
          faults0 |-> 0]

NoLast == [op |-> "none", data |-> <<>>, n |-> 0,
           err |-> "nil", t0 |-> 0, t1 |-> 0, size0 |-> 0,
           rotationTime0 |-> 0, rots0 |-> 0, prevName |-> NoName,
           rots |-> <<>>,
           pre |-> <<>>, post |-> <<>>, path |-> NoName, enq |-> FALSE,
           reopens |-> 0,
           disc |-> FALSE, afterClose |-> FALSE, unlinkedBy |-> "nobody",
           name |-> NoName, size |-> 0, rotationTime |-> 0]

NoCalls == [writes |-> 0, rotates |-> 0, closes |-> 0, closed |-> 0,
            faults |-> 0, enqueued |-> 0, buffered |-> 0, bytes |-> 0,
            rotated |-> 0, early |-> 0, sent |-> <<>>, handed |-> <<>>,
            sentAtClose |-> 0]

\* New at the instant unix: the Logger and its two goroutines, which have
\* not yet run
NewAt(cfg, zone, dir, unix) ==
    /\ opts = cfg
    /\ clock = [unix |-> unix, zone |-> zone]
    /\ tzOffsetSeconds = OffsetAt(zone, unix)
    /\ file = NoFile
    /\ size = 0
    /\ currRotationTime = 0
    /\ currFilename = NoName
    /\ currBaseFilename = NoName
    /\ currSequence = 0
    /\ mu = Free
    /\ wg = IF cfg.writeChSize > 0 THEN 2 ELSE 1
    /\ writeCh = <<>>
    /\ millCh = 0
    /\ quit = FALSE
    /\ discards = 0
    /\ denied = FALSE
    /\ fs = dir
    /\ dir0 = dir
    /\ orphan = NoOrphan
    /\ pc = [p \in Procs |->
               IF p \in Producers THEN "idle"
               ELSE IF p = Writer /\ cfg.writeChSize = 0 THEN "none"
               ELSE "spawned"]
    /\ arg = [p \in Procs |-> NoArg]
    /\ drain = {}
    /\ millFiles = <<>>
    /\ panicked = FALSE
    /\ calls = NoCalls
    /\ opened = {}

\* New at the instant unix, no call made yet
InitAt(cfg, zone, dir, unix) == NewAt(cfg, zone, dir, unix) /\ last = NoLast

\* New at second 1
InitWith(cfg, zone, dir) == InitAt(cfg, zone, dir, 1)

----------------------------------------------------------------------------
(* Actions.                                                                *)

\* the fields of s become the Logger's and the directory's
Commit(s) ==
    /\ file' = s.file
    /\ size' = s.size
    /\ currRotationTime' = s.currRotationTime
    /\ currFilename' = s.currFilename
    /\ currBaseFilename' = s.currBaseFilename
    /\ currSequence' = s.currSequence
    /\ millCh' = s.millCh
    /\ fs' = s.fs
    /\ orphan' = s.orphan
    /\ opened' = s.opened

\* a step in which a filesystem call fails uses up one of the MaxFaults
Cost(plan) == IF plan = NoPlan THEN 0 ELSE 1

\* where a process is after its call to write returned
Ret(p) == IF p \in Producers THEN "idle" ELSE "loop"

\* a lock that never makes its caller wait
LockFree(p) == TRUE

\* l.mu.Lock(): the caller goes on once nobody holds the lock
Lock(p) == mu = Free

\* Write in synchronous mode (and writeLoop's call of write): lock,
\* freshness check and rotation factors; an error returns (0, err)
WriteBegin(p, data, plan) ==
    /\ ~panicked
    /\ Lock(p)
    /\ calls.faults + Cost(plan) <= MaxFaults
    /\ \/ /\ p \in Producers
          /\ pc[p] = "idle"
          /\ opts.writeChSize <= 0
          /\ calls.writes < MaxWrites
       \/ /\ p = Writer
          /\ pc[p] = "recv"
          /\ data = arg[p].data
    /\ LET len == Len(data)
           Locals(s1) ==
               [NoArg EXCEPT !.data = data, !.t0 = clock.unix,
                             !.afterClose = calls.closed > 0,
                             !.size0 = s1.size,
                             !.rotationTime0 = s1.currRotationTime,
                             !.rots0 = Len(s1.rots),
                             !.prevName = s1.currFilename,
                             !.gone = file.open /\ orphan.is
                                      /\ orphan.by = "extern",
                             !.name0 = currFilename,
                             !.base0 = currBaseFilename,
                             !.seq0 = currSequence,
                             !.faults0 = calls.faults + Cost(plan)]
           Prepared(b, s2) ==
               /\ Commit(s2)
               /\ IF s2.err # "nil"
                  THEN /\ mu' = Free
                       /\ pc' = [pc EXCEPT ![p] = Ret(p)]
                       /\ arg' = [arg EXCEPT ![p] = NoArg]
                       /\ last' = [NoLast EXCEPT !.op = "write",
                                      !.data = data, !.n = 0,
                                      !.err = s2.err, !.t0 = clock.unix,
                                      !.t1 = clock.unix, !.rots = s2.rots,
                                      !.size0 = b.size0,
                                      !.rotationTime0 = b.rotationTime0,
                                      !.rots0 = b.rots0,
                                      !.prevName = b.prevName,
                                      !.afterClose = b.afterClose,
                                      !.name = s2.currFilename,
                                      !.size = s2.size,
                                      !.rotationTime = s2.currRotationTime]
                  ELSE /\ mu' = p
                       /\ pc' = [pc EXCEPT ![p] = "write"]
                       /\ arg' = [arg EXCEPT ![p] = [b EXCEPT !.rots = s2.rots]]
                       /\ last' = last
           Fresh(s1) == Prepared(Locals(s1), writePrepare(s1, len))
       IN /\ Fresh(writeFreshness(Start(plan), len))
          /\ calls' = [calls EXCEPT
                          !.writes = IF p = Writer THEN @ ELSE @ + 1,
                          !.bytes = IF p = Writer THEN @ ELSE @ + len,
                          !.handed = IF p = Writer THEN Append(@, Tag(data))
                                     ELSE @,
                          !.faults = @ + Cost(plan)]
    /\ UNCHANGED <<dir0, opts, tzOffsetSeconds, wg, writeCh, quit, discards, denied,
                   clock, drain, millFiles, panicked>>

\* l.file.Write writes wn of the len bytes (fewer than len is an error),
\* the recovery runs on error, and write returns (wn, err)
WriteEnd(p, wn, plan) ==
    /\ ~panicked
    /\ pc[p] = "write"
    /\ wn \in 0..Len(arg[p].data)
    /\ (wn = Len(arg[p].data) => plan = NoPlan)
    /\ (wn < Len(arg[p].data) => calls.faults < MaxFaults)
    /\ IF ~file.open
       THEN /\ panicked' = TRUE      \* a nil l.file
            /\ UNCHANGED <<file, size, currRotationTime, currFilename,
                           currBaseFilename, currSequence, millCh, fs, orphan,
                           opened, calls, mu, pc, arg, last>>
       ELSE LET b == arg[p]
                Written(s0, s) ==
                    /\ Commit(s)
                    /\ last' = [NoLast EXCEPT !.op = "write",
                                   !.data = b.data, !.n = wn,
                                   !.err = s.err, !.t0 = b.t0, !.t1 = clock.unix,
                                   !.size0 = b.size0,
                                   !.rotationTime0 = b.rotationTime0,
                                   !.rots0 = b.rots0,
                                   !.prevName = b.prevName, !.rots = b.rots,
                                   !.pre = HandleContent(s0),
                                   !.post = IF wn < Len(b.data) THEN <<>>
                                            ELSE HandleContent(s),
                                   !.path = file.path,
                                   !.unlinkedBy = s.orphan.by,
                                   !.reopens = s.reopens,
                                   !.afterClose = b.afterClose,
                                   !.name = s.currFilename, !.size = s.size,
                                   !.rotationTime = s.currRotationTime]
                Started(s0) == Written(s0, writeIO(s0, b.data, wn))
            IN /\ Started(Start(plan))
               /\ calls' = [calls EXCEPT
                               !.faults = @ + (IF wn < Len(b.data) THEN 1 ELSE 0)]
               /\ mu' = Free
               /\ pc' = [pc EXCEPT ![p] = Ret(p)]
               /\ arg' = [arg EXCEPT ![p] = NoArg]
               /\ panicked' = panicked
    /\ UNCHANGED <<dir0, opts, tzOffsetSeconds, wg, writeCh, quit, discards, denied,
                   clock, drain, millFiles>>

\* Rotate: lock, rotate, unlock; the caller makes at most limit such calls
RotateWithin(p, plan, limit) ==
    /\ ~panicked
    /\ p \in Producers
    /\ pc[p] = "idle"
    /\ Lock(p)
    /\ calls.rotates < limit
    /\ calls.faults + Cost(plan) <= MaxFaults
    /\ LET Rotated(s) ==
               /\ Commit(s)
               /\ last' = [NoLast EXCEPT !.op = "rotate", !.err = s.err,
                              !.t0 = clock.unix, !.t1 = clock.unix,
                              !.prevName = currFilename, !.rots = s.rots,
                              !.name = s.currFilename, !.size = s.size,
                              !.rotationTime = s.currRotationTime]
           Counted(s) ==
               calls' = [calls EXCEPT
                            !.rotates = @ + 1, !.faults = @ + Cost(plan),
                            !.rotated = IF s.err = "nil" THEN @ + 1 ELSE @,
                            !.early = IF calls.writes = 0 THEN @ + 1 ELSE @]
           Done(s) == Rotated(s) /\ Counted(s)
       IN Done(rotate(Start(plan)))
    /\ UNCHANGED <<dir0, opts, tzOffsetSeconds, mu, wg, writeCh, quit, discards,
                   denied, clock, pc, arg, drain, millFiles, panicked>>

Rotate(p, plan) == RotateWithin(p, plan, MaxRotates)


\* Write in buffered mode, first half: the test len(l.writeCh) < writeChSize;
\* a full channel counts a discard and returns (len(b), nil); the callers
\* make at most limit Write calls
BufferedWriteWithin(p, data, limit) ==
    /\ ~panicked
    /\ p \in Producers
    /\ pc[p] = "idle"
    /\ opts.writeChSize > 0
    /\ calls.writes < limit
    /\ LET b == [NoArg EXCEPT !.data = data, !.afterClose = calls.closed > 0]
       IN IF Len(writeCh) < opts.writeChSize
          THEN /\ pc' = [pc EXCEPT ![p] = "send"]
               /\ arg' = [arg EXCEPT ![p] = b]
               /\ calls' = [calls EXCEPT !.writes = @ + 1]
               /\ UNCHANGED <<discards, last>>
          ELSE /\ discards' = discards + 1
               /\ calls' = [calls EXCEPT !.writes = @ + 1, !.buffered = @ + 1]
               /\ last' = [NoLast EXCEPT !.op = "buffered",
                              !.data = data, !.n = Len(data),
                              !.disc = TRUE,
                              !.afterClose = calls.closed > 0]
               /\ UNCHANGED <<pc, arg>>
    /\ UNCHANGED <<dir0, opts, tzOffsetSeconds, file, size, currRotationTime,
                   currFilename, currBaseFilename, currSequence, mu, wg,
                   writeCh, millCh, quit, denied, clock, fs, orphan, drain,
                   millFiles, panicked, opened>>

BufferedWrite(p, data) == BufferedWriteWithin(p, data, MaxWrites)

\* a plain send l.writeCh <- b, which waits for room in the channel
BufferedSendBlocking(p) ==
    /\ ~panicked
    /\ pc[p] = "send"
    /\ Len(writeCh) < opts.writeChSize
    /\ writeCh' = Append(writeCh, arg[p].data)
    /\ calls' = [calls EXCEPT !.enqueued = @ + 1, !.buffered = @ + 1,
                              !.sent = Append(@, Tag(arg[p].data))]
    /\ last' = [NoLast EXCEPT !.op = "buffered", !.data = arg[p].data,
                   !.n = Len(arg[p].data), !.enq = TRUE,
                   !.afterClose = arg[p].afterClose]
    /\ pc' = [pc EXCEPT ![p] = "idle"]
    /\ arg' = [arg EXCEPT ![p] = NoArg]
    /\ UNCHANGED <<dir0, opts, tzOffsetSeconds, file, size, currRotationTime,
                   currFilename, currBaseFilename, currSequence, mu, wg,
                   millCh, quit, discards, denied, clock, fs, orphan, drain,
                   millFiles, panicked, opened>>

\* Write in buffered mode, second half: the select with a default
BufferedSend(p) ==
    /\ ~panicked
    /\ pc[p] = "send"
    /\ IF Len(writeCh) < opts.writeChSize
       THEN /\ writeCh' = Append(writeCh, arg[p].data)
            /\ calls' = [calls EXCEPT !.enqueued = @ + 1, !.buffered = @ + 1,
                                      !.sent = Append(@, Tag(arg[p].data))]
            /\ discards' = discards
       ELSE /\ discards' = discards + 1
            /\ calls' = [calls EXCEPT !.buffered = @ + 1]
            /\ writeCh' = writeCh
    /\ last' = [NoLast EXCEPT !.op = "buffered", !.data = arg[p].data,
                   !.n = Len(arg[p].data),
                   !.enq = Len(writeCh) < opts.writeChSize,
                   !.disc = ~(Len(writeCh) < opts.writeChSize),
                   !.afterClose = arg[p].afterClose]
    /\ pc' = [pc EXCEPT ![p] = "idle"]
    /\ arg' = [arg EXCEPT ![p] = NoArg]
    /\ UNCHANGED <<dir0, opts, tzOffsetSeconds, file, size, currRotationTime,
                   currFilename, currBaseFilename, currSequence, mu, wg,
                   millCh, quit, denied, clock, fs, orphan, drain, millFiles,
                   panicked, opened>>

\* Close, line 783: close(l.quit); closing a closed channel panics
CloseQuit(p) ==
    /\ ~panicked
    /\ p \in Producers
    /\ pc[p] = "idle"
    /\ calls.closes < MaxCloses
    /\ calls' = [calls EXCEPT !.closes = @ + 1,
                              !.sentAtClose = IF quit THEN @
                                              ELSE Len(calls.sent)]
    /\ IF quit
       THEN /\ panicked' = TRUE
            /\ UNCHANGED <<quit, pc>>
       ELSE /\ quit' = TRUE
            /\ pc' = [pc EXCEPT ![p] = "closeWait"]
            /\ panicked' = panicked
    /\ UNCHANGED <<dir0, opts, tzOffsetSeconds, file, size, currRotationTime,
                   currFilename, currBaseFilename, currSequence, mu, wg,
                   writeCh, millCh, discards, denied, clock, fs, orphan, arg,
                   drain, millFiles, last, opened>>

\* Close, line 784: l.wg.Wait() returns when the counter is zero
CloseWait(p) ==
    /\ ~panicked
    /\ pc[p] = "closeWait"
    /\ wg = 0
    /\ pc' = [pc EXCEPT ![p] = "closeLock"]
    /\ UNCHANGED <<dir0, opts, tzOffsetSeconds, file, size, currRotationTime,
                   currFilename, currBaseFilename, currSequence, mu, wg,
                   writeCh, millCh, quit, discards, denied, clock, fs, orphan,
                   arg, drain, millFiles, panicked, calls, last, opened>>

\* Close, lines 786-795: lock, close the file, unlock, return
CloseFile(p, plan) ==
    /\ ~panicked
    /\ pc[p] = "closeLock"
    /\ Lock(p)
    /\ plan \in {NoPlan, [NoPlan EXCEPT !.closeFail = 1]}
    /\ calls.faults + Cost(plan) <= MaxFaults
    /\ LET Closed(s) ==
               /\ Commit(s)
               /\ last' = [NoLast EXCEPT !.op = "close", !.err = s.err,
                              !.afterClose = calls.closed > 0]
       IN Closed(close(Start(plan)))
    /\ calls' = [calls EXCEPT !.closed = @ + 1, !.faults = @ + Cost(plan)]
    /\ pc' = [pc EXCEPT ![p] = "idle"]
    /\ UNCHANGED <<dir0, opts, tzOffsetSeconds, mu, wg, writeCh, quit, discards,
                   denied, clock, arg, drain, millFiles, panicked>>

\* the goroutines New starts: l.wg.Done() first, then the loop
WorkerStart(w) ==
    /\ ~panicked
    /\ w \in {Writer, Miller}
    /\ pc[w] = "spawned"
    /\ wg' = wg - 1
    /\ pc' = [pc EXCEPT ![w] = "loop"]
    /\ UNCHANGED <<dir0, opts, tzOffsetSeconds, file, size, currRotationTime,
                   currFilename, currBaseFilename, currSequence, mu, writeCh,
                   millCh, quit, discards, denied, clock, fs, orphan, arg,
                   drain, millFiles, panicked, calls, last, opened>>

\* writeLoop and millLoop: case <-l.quit, the drain timer starts
WorkerQuit(w) ==
    /\ ~panicked
    /\ w \in {Writer, Miller}
    /\ pc[w] = "loop"
    /\ quit
    /\ w \notin drain
    /\ drain' = drain \cup {w}
    /\ UNCHANGED <<dir0, opts, tzOffsetSeconds, file, size, currRotationTime,
                   currFilename, currBaseFilename, currSequence, mu, wg,
                   writeCh, millCh, quit, discards, denied, clock, fs, orphan,
                   pc, arg, millFiles, panicked, calls, last, opened>>

\* a drain whose timer is set again when it fires
WorkerExitRearmed(w) ==
    /\ ~panicked
    /\ w \in {Writer, Miller}
    /\ pc[w] = "loop"
    /\ w \in drain
    /\ UNCHANGED vars

\* writeLoop and millLoop: case <-timer.C, return
WorkerExit(w) ==
    /\ ~panicked
    /\ w \in {Writer, Miller}
    /\ pc[w] = "loop"
    /\ w \in drain
    /\ pc' = [pc EXCEPT ![w] = "done"]
    /\ UNCHANGED <<dir0, opts, tzOffsetSeconds, file, size, currRotationTime,
                   currFilename, currBaseFilename, currSequence, mu, wg,
                   writeCh, millCh, quit, discards, denied, clock, fs, orphan,
                   arg, drain, millFiles, panicked, calls, last, opened>>

\* a receive that empties the channel and keeps its first record
ReceiveDropping(ch) == [b |-> Head(ch), rest |-> <<>>]

\* a receive that takes the record sent last
ReceiveNewest(ch) == [b |-> ch[Len(ch)], rest |-> SubSeq(ch, 1, Len(ch) - 1)]

\* <-ch on a buffered channel: the record sent first, and what stays queued
Receive(ch) == [b |-> Head(ch), rest |-> Tail(ch)]

\* writeLoop: case b := <-l.writeCh (in the loop and in the drain)
WriterRecv ==
    /\ ~panicked
    /\ pc[Writer] = "loop"
    /\ writeCh # <<>>
    /\ writeCh' = Receive(writeCh).rest
    /\ arg' = [arg EXCEPT ![Writer] = [NoArg EXCEPT !.data = Receive(writeCh).b]]
    /\ pc' = [pc EXCEPT ![Writer] = "recv"]
    /\ UNCHANGED <<dir0, opts, tzOffsetSeconds, file, size, currRotationTime,
                   currFilename, currBaseFilename, currSequence, mu, wg,
                   millCh, quit, discards, denied, clock, fs, orphan, drain,
                   millFiles, panicked, calls, last, opened>>


Retention == opts.maxBackups > 0 \/ opts.maxAge > 0

\* millLoop: case <-l.millCh, then millRunOnce up to getLogFiles
MillStart ==
    /\ ~panicked
    /\ pc[Miller] = "loop"
    /\ millCh = 1
    /\ millCh' = 0
    /\ \E files \in getLogFiles(fs) :
          IF files = <<>> \/ (opts.symlink = NoName /\ ~Retention)
          THEN /\ pc' = pc
               /\ millFiles' = <<>>
          ELSE /\ pc' = [pc EXCEPT ![Miller] =
                            IF opts.symlink # NoName THEN "link" ELSE "retain"]
               /\ millFiles' = files
    /\ UNCHANGED <<dir0, opts, tzOffsetSeconds, file, size, currRotationTime,
                   currFilename, currBaseFilename, currSequence, mu, wg,
                   writeCh, quit, discards, denied, clock, fs, orphan, arg,
                   drain, panicked, calls, last, opened>>

\* a symlink step that goes on to the retention whatever link returned
MillLinkLenient ==
    /\ ~panicked
    /\ pc[Miller] = "link"
    /\ LET r == link(fs, millFiles[1].path, opts.symlink)
       IN /\ fs' = r.fs
          /\ IF ~Retention
             THEN /\ pc' = [pc EXCEPT ![Miller] = "loop"]
                  /\ millFiles' = <<>>
             ELSE /\ pc' = [pc EXCEPT ![Miller] = "retain"]
                  /\ millFiles' = millFiles
    /\ UNCHANGED <<dir0, opts, tzOffsetSeconds, file, size, currRotationTime,
                   currFilename, currBaseFilename, currSequence, mu, wg,
                   writeCh, millCh, quit, discards, denied, clock, orphan, arg,
                   drain, panicked, calls, last, opened>>

\* millRunOnce, lines 578-588: the symlink refresh
MillLink ==
    /\ ~panicked
    /\ pc[Miller] = "link"
    /\ LET r == link(fs, millFiles[1].path, opts.symlink)
       IN /\ fs' = r.fs
          /\ IF r.err # "nil" \/ ~Retention
             THEN /\ pc' = [pc EXCEPT ![Miller] = "loop"]
                  /\ millFiles' = <<>>
             ELSE /\ pc' = [pc EXCEPT ![Miller] = "retain"]
                  /\ millFiles' = millFiles
    /\ UNCHANGED <<dir0, opts, tzOffsetSeconds, file, size, currRotationTime,
                   currFilename, currBaseFilename, currSequence, mu, wg,
                   writeCh, millCh, quit, discards, denied, clock, orphan, arg,
                   drain, panicked, calls, last, opened>>

\* a retention that runs under the rotation lock
MillRetainLocked ==
    /\ ~panicked
    /\ mu = Free
    /\ pc[Miller] = "retain"
    /\ LET paths == Removals(millFiles)
       IN /\ fs' = RemoveAll(fs, paths)
          /\ orphan' = OrphanAfter(fs, paths, Miller)
    /\ pc' = [pc EXCEPT ![Miller] = "loop"]
    /\ millFiles' = <<>>
    /\ UNCHANGED <<dir0, opts, tzOffsetSeconds, file, size, currRotationTime,
                   currFilename, currBaseFilename, currSequence, mu, wg,
                   writeCh, millCh, quit, discards, denied, clock, arg, drain,
                   panicked, calls, last, opened>>

\* millRunOnce, lines 590-622: retention by age and by count
MillRetain ==
    /\ ~panicked
    /\ pc[Miller] = "retain"
    /\ LET paths == Removals(millFiles)
       IN /\ fs' = RemoveAll(fs, paths)
          /\ orphan' = OrphanAfter(fs, paths, Miller)
    /\ pc' = [pc EXCEPT ![Miller] = "loop"]
    /\ millFiles' = <<>>
    /\ UNCHANGED <<dir0, opts, tzOffsetSeconds, file, size, currRotationTime,
                   currFilename, currBaseFilename, currSequence, mu, wg,
                   writeCh, millCh, quit, discards, denied, clock, arg, drain,
                   panicked, calls, last, opened>>

\* the clock advances by a second
Tick ==
    /\ ~panicked
    /\ clock.unix < MaxTime
    /\ clock' = [clock EXCEPT !.unix = @ + 1]
    /\ UNCHANGED <<dir0, opts, tzOffsetSeconds, file, size, currRotationTime,
                   currFilename, currBaseFilename, currSequence, mu, wg,
                   writeCh, millCh, quit, discards, denied, fs, orphan, pc,
                   arg, drain, millFiles, panicked, calls, last, opened>>

\* the directory loses or regains its permissions
Chmod ==
    /\ ~panicked
    /\ denied' = ~denied
    /\ IF denied THEN calls' = calls
       ELSE /\ calls.faults < MaxFaults
            /\ calls' = [calls EXCEPT !.faults = @ + 1]
    /\ UNCHANGED <<dir0, opts, tzOffsetSeconds, file, size, currRotationTime,
                   currFilename, currBaseFilename, currSequence, mu, wg,
                   writeCh, millCh, quit, discards, clock, fs, orphan, pc, arg,
                   drain, millFiles, panicked, last, opened>>

\* somebody removes the whole directory (os.RemoveAll)
ExternalRemove ==
    /\ ~panicked
    /\ ~denied
    /\ DOMAIN fs # {}
    /\ calls.faults < MaxFaults
    /\ calls' = [calls EXCEPT !.faults = @ + 1]
    /\ orphan' = OrphanAfter(fs, DOMAIN fs, "extern")
    /\ fs' = RemoveAll(fs, DOMAIN fs)
    /\ UNCHANGED <<dir0, opts, tzOffsetSeconds, file, size, currRotationTime,
                   currFilename, currBaseFilename, currSequence, mu, wg,
                   writeCh, millCh, quit, discards, denied, clock, pc, arg,
                   drain, millFiles, panicked, last, opened>>

----------------------------------------------------------------------------
(* Specifications.                                                         *)

\* a directory left by an earlier run: log and log.1, written at second 0
OldDir == (<<"log">> :> RegularFile(<<0>>, 0))
          @@ (<<"log", ".", "1">> :> RegularFile(<<0>>, 0))

EmptyDir == [n \in {} |-> RegularFile(<<>>, 0)]

\* the options of the synchronous loggers
Configs ==
    {Config(PatStatic, 0, 0, 2, 0, 0, 0, NoName),
     Config(PatStatic, 2, 1, 2, 0, 0, 0, NoName),
     Config(PatTimed, 2, 2, 2, 0, 0, 0, NoName),
     Config(PatStatic, 0, 0, 2, 0, 1, 0, LinkName)}

\* the options of the loggers that several goroutines share
SharedConfigs ==
    {Config(PatStatic, 0, 0, 2, 0, 0, 0, NoName),
     Config(PatStatic, 0, 1, 2, 0, 1, 1, LinkName)}

\* the goroutine that calls a synchronous logger
Caller == "p1"

\* a synchronous logger, called by one goroutine, on a filesystem whose
\* calls may fail
Init == \E cfg \in Configs, dir \in {EmptyDir, OldDir} : InitWith(cfg, UTC, dir)

Next ==
    \/ \E len \in Lens, plan \in Plans : WriteBegin(Caller, Record(len, 0), plan)
    \/ \E wn \in 0..3, plan \in Plans : WriteEnd(Caller, wn, plan)
    \/ \E plan \in Plans : Rotate(Caller, plan)
    \/ WorkerStart(Miller)
    \/ MillStart
    \/ MillLink
    \/ MillRetain
    \/ Tick
    \/ Chmod
    \/ ExternalRemove

Spec == Init /\ [][Next]_vars

\* a logger shared by the goroutines Producers, closed while in use, on a
\* filesystem whose calls succeed
InitShared == \E cfg \in SharedConfigs : InitWith(cfg, UTC, EmptyDir)

NextShared ==
    \/ \E p \in Producers \cup {Writer}, len \in Lens :
           WriteBegin(p, Record(len, 0), NoPlan)
    \/ \E p \in Producers \cup {Writer} :
           WriteEnd(p, Len(arg[p].data), NoPlan)
    \/ \E p \in Producers : Rotate(p, NoPlan)
    \/ \E p \in Producers, len \in Lens : BufferedWrite(p, Record(len, 0))
    \/ \E p \in Producers : BufferedSend(p)
    \/ \E p \in Producers : CloseQuit(p)
    \/ \E p \in Producers : CloseWait(p)
    \/ \E p \in Producers : CloseFile(p, NoPlan)
    \/ \E w \in {Writer, Miller} : WorkerStart(w)
    \/ \E w \in {Writer, Miller} : WorkerQuit(w)
    \/ \E w \in {Writer, Miller} : WorkerExit(w)
    \/ WriterRecv
    \/ MillStart
    \/ MillLink
    \/ MillRetain
    \/ Tick

SpecShared == InitShared /\ [][NextShared]_vars

\* the options of the loggers that are written, rotated and closed
LifeConfigs ==
    {Config(PatStatic, 2, 1, 2, 0, 0, 0, NoName),
     Config(PatStatic, 0, 0, 2, 0, 1, 0, LinkName)}

\* a synchronous logger through its whole life, Close included, on a
\* filesystem whose calls may fail
InitLife == \E cfg \in LifeConfigs : InitWith(cfg, UTC, OldDir)

NextLife ==
    \/ \E len \in Lens, plan \in Plans : WriteBegin(Caller, Record(len, 0), plan)
    \/ \E wn \in 0..3, plan \in Plans : WriteEnd(Caller, wn, plan)
    \/ \E plan \in Plans : Rotate(Caller, plan)
    \/ CloseQuit(Caller)
    \/ CloseWait(Caller)
    \/ \E plan \in Plans : CloseFile(Caller, plan)
    \/ WorkerStart(Miller)
    \/ WorkerQuit(Miller)
    \/ WorkerExit(Miller)
    \/ MillStart
    \/ MillLink
    \/ MillRetain
    \/ Tick
    \/ Chmod
    \/ ExternalRemove

SpecLife == InitLife /\ [][NextLife]_vars

\* the options of the loggers that Rotate is called on again and again
NamingConfigs ==
    {Config(PatStatic, 0, 0, 0, 0, 0, 0, NoName),
     Config(PatStatic, 0, 0, 2, 0, 0, 0, NoName),
     Config(PatTimed, 0, 0, 2, 0, 0, 0, NoName)}

\* a synchronous logger without a sequence cap, rotated by its caller up to
\* MaxForced times, on a filesystem whose calls may fail
InitNaming ==
    \E cfg \in NamingConfigs, dir \in {EmptyDir, OldDir} : InitWith(cfg, UTC, dir)

NextNaming ==
    \/ \E len \in Lens, plan \in Plans : WriteBegin(Caller, Record(len, 0), plan)
    \/ \E wn \in 0..3, plan \in Plans : WriteEnd(Caller, wn, plan)
    \/ \E plan \in Plans : RotateWithin(Caller, plan, MaxForced)
    \/ Tick
    \/ Chmod
    \/ ExternalRemove

SpecNaming == InitNaming /\ [][NextNaming]_vars

\* the options of the loggers whose clocks are in other locations
ZoneConfigs ==
    {Config(PatTimed, Day, 0, 2, 0, 0, 0, NoName),
     Config(PatTimed, 2, 0, 0, 0, 0, 0, NoName)}

\* the instants at which New is called
Instants == {-2, 1, 6, 12}

\* a synchronous logger with a clock in Asia/Tokyo, Pacific/Honolulu or UTC,
\* created at one of Instants, on a filesystem whose calls succeed
InitZones ==
    \E cfg \in ZoneConfigs, zone \in {UTC, Tokyo, Honolulu}, unix \in Instants :
        InitAt(cfg, zone, EmptyDir, unix)

NextZones ==
    \/ \E len \in Lens : WriteBegin(Caller, Record(len, 0), NoPlan)
    \/ WriteEnd(Caller, Len(arg[Caller].data), NoPlan)
    \/ Rotate(Caller, NoPlan)
    \/ Tick

SpecZones == InitZones /\ [][NextZones]_vars

\* the options of the loggers whose glob matches every file they create
MillConfigs ==
    {Config(PatTimed, 0, 0, 2, 0, 0, 0, LinkName),
     Config(PatTimed, 2, 0, 2, 1, 1, 0, LinkName)}

\* a synchronous logger with a symlink and a mill worker, in a directory
\* that may refuse access
InitMill ==
    \E cfg \in MillConfigs, dir \in {EmptyDir, OldDir} : InitWith(cfg, UTC, dir)

NextMill ==
    \/ \E len \in Lens : WriteBegin(Caller, Record(len, 0), NoPlan)
    \/ WriteEnd(Caller, Len(arg[Caller].data), NoPlan)
    \/ Rotate(Caller, NoPlan)
    \/ WorkerStart(Miller)
    \/ MillStart
    \/ MillLink
    \/ MillRetain
    \/ Tick
    \/ Chmod

SpecMill == InitMill /\ [][NextMill]_vars

\* "app%t.log": literal text after the directive
PatSuffixed == <<"app", "%", "t", ".", "log">>

\* the seconds at which the files of an earlier run were last written
OldTimes == -4..0

\* the directory of createRotationTestFile: five files named by the pattern
\* at five successive seconds, each last written at the second it names
BackupDir(pattern) ==
    [n \in {FormatString(pattern, t) : t \in OldTimes} |->
        RegularFile(<<0>>, CHOOSE t \in OldTimes : FormatString(pattern, t) = n)]

\* the options of the loggers whose mill removes files
RetainConfigs ==
    {Config(PatTimed, 0, 0, 2, 0, 2, 0, NoName),
     Config(PatTimed, 2, 0, 2, 2, 0, 0, LinkName),
     Config(PatTimed, 2, 0, 2, 3, 2, 0, NoName),
     Config(PatSuffixed, 0, 0, 2, 0, 2, 0, NoName)}

\* a synchronous logger with retention, in an empty directory or in one
\* that holds five files of its pattern, which may refuse access or be
\* emptied from outside
InitRetain ==
    \E cfg \in RetainConfigs :
        \E dir \in {EmptyDir, BackupDir(cfg.pattern)} : InitWith(cfg, UTC, dir)

NextRetain ==
    \/ \E len \in Lens : WriteBegin(Caller, Record(len, 0), NoPlan)
    \/ WriteEnd(Caller, Len(arg[Caller].data), NoPlan)
    \/ Rotate(Caller, NoPlan)
    \/ WorkerStart(Miller)
    \/ MillStart
    \/ MillLink
    \/ MillRetain
    \/ Tick
    \/ Chmod
    \/ ExternalRemove

SpecRetain == InitRetain /\ [][NextRetain]_vars

\* the options of the buffered loggers of one producer
QueueConfigs ==
    {Config(PatStatic, 0, 0, 2, 0, 0, 1, NoName),
     Config(PatStatic, 0, 0, 2, 0, 0, 2, NoName)}

\* a buffered logger that one goroutine writes up to MaxQueued records to, the
\* k-th record filled with the byte k, and then closes, on a filesystem whose
\* calls succeed
InitQueue == \E cfg \in QueueConfigs : InitWith(cfg, UTC, EmptyDir)

NextQueue ==
    \/ \E len \in Lens :
           BufferedWriteWithin(Caller, Record(len, calls.writes + 1), MaxQueued)
    \/ BufferedSend(Caller)
    \/ WriterRecv
    \/ WriteBegin(Writer, arg[Writer].data, NoPlan)
    \/ WriteEnd(Writer, Len(arg[Writer].data), NoPlan)
    \/ CloseQuit(Caller)
    \/ CloseWait(Caller)
    \/ CloseFile(Caller, NoPlan)
    \/ \E w \in {Writer, Miller} : WorkerStart(w)
    \/ \E w \in {Writer, Miller} : WorkerQuit(w)
    \/ \E w \in {Writer, Miller} : WorkerExit(w)
    \/ MillStart

SpecQueue == InitQueue /\ [][NextQueue]_vars

\* the patterns and the symlink paths of the loggers whose symlink is in
\* another place than their files
LinkPatterns ==
    {<<"log", "%", "t">>, <<"d", "/", "log", "%", "t">>, <<"/", "d", "/", "log", "%", "t">>}

LinkPaths ==
    {<<"current">>, <<"d", "/", "current">>,
     <<"d", "/", "a", "/", "b", "/", "current">>, <<"x", "/", "current">>,
     <<"/", "d", "/", "current">>,
     <<"/", "d", "/", "a", "/", "b", "/", "current">>,
     <<"/", "x", "/", "current">>}

\* a synchronous logger with a symlink, on a filesystem whose calls succeed
InitLink ==
    \E pattern \in LinkPatterns, symlink \in LinkPaths :
        InitWith(Config(pattern, 0, 0, 2, 0, 0, 0, symlink), UTC, EmptyDir)

NextLink ==
    \/ \E len \in Lens : WriteBegin(Caller, Record(len, 0), NoPlan)
    \/ WriteEnd(Caller, Len(arg[Caller].data), NoPlan)
    \/ Rotate(Caller, NoPlan)
    \/ WorkerStart(Miller)
    \/ MillStart
    \/ MillLink

SpecLink == InitLink /\ [][NextLink]_vars

\* the characters of the patterns handed to parseGlobPattern: "%", a letter
\* of a directive, "*" and a character that is neither
GlobChars == {"%", "Y", "*", "_"}

\* patterns of Test_parseGlobPattern: "test_%Y%m%d%H%M%S.log",
\* "test_%%Y%m%d%H%M%S" and "test_***%Y%m%d%H%M%S**"
PatWithExt ==
    <<"test_", "%", "Y", "%", "m", "%", "d", "%", "H", "%", "M", "%", "S",
      ".", "log">>

PatEscapeMiss ==
    <<"test_", "%", "%", "Y", "%", "m", "%", "d", "%", "H", "%", "M",
      "%", "S">>

PatManyStars ==
    <<"test_", "*", "*", "*", "%", "Y", "%", "m", "%", "d", "%", "H",
      "%", "M", "%", "S", "*", "*">>

GlobInputs ==
    UNION {[1..n -> GlobChars] : n \in 0..MaxPattern}
        \cup {PatWithExt, PatEscapeMiss, PatManyStars}

\* a test about to hand a pattern to parseGlobPattern
InitGlob ==
    \E pattern \in GlobInputs :
        /\ NewAt(Config(PatStatic, 0, 0, 2, 0, 0, 0, NoName), UTC, EmptyDir, 1)
        /\ last = [NoLast EXCEPT !.op = "pattern", !.data = pattern]

\* the call parseGlobPattern(pattern) and its result
ParseGlob ==
    /\ last.op = "pattern"
    /\ last' = [last EXCEPT !.op = "glob", !.post = parseGlobPattern(last.data)]
    /\ UNCHANGED <<dir0, opts, tzOffsetSeconds, file, size, currRotationTime,
                   currFilename, currBaseFilename, currSequence, mu, wg,
                   writeCh, millCh, quit, discards, denied, clock, fs, orphan,
                   pc, arg, drain, millFiles, panicked, calls, opened>>

NextGlob == ParseGlob

SpecGlob == InitGlob /\ [][NextGlob]_vars

\* a Logger that finds files of an earlier run, is closed and written again
ReopenConfigs ==
    {Config(PatStatic, 0, 0, 3, 0, 0, 0, NoName),
     Config(PatStatic, 0, 1, 3, 0, 0, 0, NoName),
     Config(PatStatic, 0, 0, 0, 0, 0, 0, NoName)}

ReopenLens == {1, 2, 3}

InitReopen ==
    \E cfg \in ReopenConfigs, dir \in {EmptyDir, OldDir} : InitWith(cfg, UTC, dir)

NextReopen ==
    \/ \E len \in ReopenLens : WriteBegin(Caller, Record(len, 0), NoPlan)
    \/ WriteEnd(Caller, Len(arg[Caller].data), NoPlan)
    \/ Rotate(Caller, NoPlan)
    \/ CloseQuit(Caller)
    \/ CloseWait(Caller)
    \/ CloseFile(Caller, NoPlan)
    \/ WorkerStart(Miller)
    \/ WorkerQuit(Miller)
    \/ WorkerExit(Miller)
    \/ MillStart

SpecReopen == InitReopen /\ [][NextReopen]_vars

\* a synchronous logger with a symlink and a retention, its mill goroutine
\* scheduled fairly: a goroutine that can run is run in the end, and the
\* filesystem calls of a mill cycle return
TriggerConfigs ==
    {Config(PatStatic, 0, 0, 2, 0, 1, 0, LinkName),
     Config(PatStatic, 0, 0, 2, 0, 0, 0, NoName)}

InitTrigger ==
    \E cfg \in TriggerConfigs, dir \in {EmptyDir, OldDir} : InitWith(cfg, UTC, dir)

NextTrigger ==
    \/ \E len \in Lens : WriteBegin(Caller, Record(len, 0), NoPlan)
    \/ WriteEnd(Caller, Len(arg[Caller].data), NoPlan)
    \/ Rotate(Caller, NoPlan)
    \/ CloseQuit(Caller)
    \/ CloseWait(Caller)
    \/ CloseFile(Caller, NoPlan)
    \/ WorkerStart(Miller)
    \/ WorkerQuit(Miller)
    \/ WorkerExit(Miller)
    \/ MillStart
    \/ MillLink
    \/ MillRetain

\* loggers with a retention whose symlink cannot be made (the files are
\* under the relative directory d, the link path is absolute and contains
\* "d") or is refused by the directory, and one whose symlink can be made
PatInDir == <<"d", "/", "log", "%", "t">>
AbsLink == <<"/", "d", "/", "current">>

RelinkConfigs ==
    {Config(PatInDir, 0, 0, 2, 0, 1, 0, AbsLink),
     Config(PatTimed, 0, 0, 2, 0, 1, 0, LinkName)}

InitRelink ==
    \E cfg \in RelinkConfigs :
        \E dir \in {EmptyDir, BackupDir(cfg.pattern)} : InitWith(cfg, UTC, dir)

NextRelink ==
    \/ \E len \in Lens : WriteBegin(Caller, Record(len, 0), NoPlan)
    \/ WriteEnd(Caller, Len(arg[Caller].data), NoPlan)
    \/ Rotate(Caller, NoPlan)
    \/ CloseQuit(Caller)
    \/ CloseWait(Caller)
    \/ CloseFile(Caller, NoPlan)
    \/ WorkerStart(Miller)
    \/ WorkerQuit(Miller)
    \/ WorkerExit(Miller)
    \/ MillStart
    \/ MillLink
    \/ MillRetain
    \/ Tick

SpecRelink == InitRelink /\ [][NextRelink]_vars

\* a logger whose symlink has a name that the glob matches, in a directory
\* in which an earlier run left files and the temporary link of a refresh
\* whose os.Rename failed
GlobbedLink == <<"log", "current">>
TmpLink == <<"log", "0", ".", "symlink#">>

StaleDir ==
    BackupDir(PatTimed) @@ (TmpLink :> SymlinkFile(<<"log", "0">>, 0))

SkipConfigs ==
    {Config(PatTimed, 0, 0, 2, 0, 1, 0, GlobbedLink),
     Config(PatTimed, 0, 0, 2, 0, 2, 0, GlobbedLink),
     Config(PatTimed, 0, 0, 2, 2, 0, 0, GlobbedLink)}

InitSkip ==
    \E cfg \in SkipConfigs, dir \in {EmptyDir, StaleDir} : InitWith(cfg, UTC, dir)

NextSkip ==
    \/ \E len \in Lens : WriteBegin(Caller, Record(len, 0), NoPlan)
    \/ WriteEnd(Caller, Len(arg[Caller].data), NoPlan)
    \/ Rotate(Caller, NoPlan)
    \/ WorkerStart(Miller)
    \/ MillStart
    \/ MillLink
    \/ MillRetain
    \/ Tick

SpecSkip == InitSkip /\ [][NextSkip]_vars

\* base filenames handed to byModTime: log, app.log, log.7, log.20240404,
\* and app.2024040412.log of Test_SymlinkTologfileWithSuffix
RankBases ==
    {<<"log">>,
     <<"app", ".", "log">>,
     <<"log", ".", "7">>,
     <<"log", ".", "2", "0", "2", "4", "0", "4", "0", "4">>,
     <<"app", ".", "2", "0", "2", "4", "0", "4", "0", "4", "1", "2", ".", "log">>}

RankTimes == 0..2

\* the files base, base.1 and base.2 of one interval, with their
\* modification times, about to be sorted
InitRank ==
    \E base \in RankBases, mt \in [0..2 -> RankTimes] :
        /\ NewAt(Config(PatStatic, 0, 0, 2, 0, 0, 0, NoName), UTC, EmptyDir, 1)
        /\ last = [NoLast EXCEPT
                      !.op = "files",
                      !.data = [i \in 1..3 |->
                                   [path |-> genFilename(base, i - 1),
                                    mtime |-> mt[i - 1]]]]

\* sort.Sort(byModTime(logFiles)) and the order it leaves
SortFiles ==
    /\ last.op = "files"
    /\ \E q \in SortedByModTime({last.data[i] : i \in 1..3}) :
           last' = [last EXCEPT !.op = "sorted", !.post = q]
    /\ UNCHANGED <<dir0, opts, tzOffsetSeconds, file, size, currRotationTime,
                   currFilename, currBaseFilename, currSequence, mu, wg,
                   writeCh, millCh, quit, discards, denied, clock, fs, orphan,
                   pc, arg, drain, millFiles, panicked, calls, opened>>

NextRank == SortFiles

SpecRank == InitRank /\ [][NextRank]_vars

\* a buffered and a synchronous logger with a symlink and a retention that
\* are closed while records are written and rotations forced.  The
\* goroutines are scheduled fairly; a select with more than one ready case
\* takes each of them in the end (the choice is uniformly random), so the
\* cases on l.quit and on timer.C are strongly fair; the filesystem calls
\* return.
DrainConfigs ==
    {Config(PatStatic, 0, 0, 2, 0, 1, 1, LinkName),
     Config(PatStatic, 0, 0, 2, 0, 1, 0, LinkName)}

InitDrain == \E cfg \in DrainConfigs : InitWith(cfg, UTC, EmptyDir)

NextDrain ==
    \/ \E len \in Lens : BufferedWrite(Caller, Record(len, calls.writes + 1))
    \/ BufferedSend(Caller)
    \/ WriterRecv
    \/ \E len \in Lens : WriteBegin(Caller, Record(len, 0), NoPlan)
    \/ WriteEnd(Caller, Len(arg[Caller].data), NoPlan)
    \/ WriteBegin(Writer, arg[Writer].data, NoPlan)
    \/ WriteEnd(Writer, Len(arg[Writer].data), NoPlan)
    \/ Rotate(Caller, NoPlan)
    \/ CloseQuit(Caller)
    \/ CloseWait(Caller)
    \/ CloseFile(Caller, NoPlan)
    \/ \E w \in {Writer, Miller} : WorkerStart(w)
    \/ \E w \in {Writer, Miller} : WorkerQuit(w)
    \/ \E w \in {Writer, Miller} : WorkerExit(w)
    \/ MillStart
    \/ MillLink
    \/ MillRetain

\* weak fairness of the two steps of the write goroutine's l.write, written
\* with their enabling conditions: the goroutine does not wait for a lock
\* that stays free, and its os.File.Write returns
WriterLocks == []<>(panicked \/ pc[Writer] # "recv" \/ mu # Free)

WriterWrites == []<>(panicked \/ pc[Writer] # "write")

SpecDrain ==
    /\ InitDrain
    /\ [][NextDrain]_vars
    /\ \A w \in {Writer, Miller} :
           /\ WF_vars(WorkerStart(w))
           /\ SF_vars(WorkerQuit(w))
           /\ SF_vars(WorkerExit(w))
    /\ WriterLocks
    /\ WriterWrites
    /\ WF_vars(MillLink)
    /\ WF_vars(MillRetain)

\* synchronous loggers with a retention by age, by count and by both, in an
\* empty directory or in one that holds the file of an earlier run
PatDotted == <<"log", ".", "%", "t">>

ActiveConfigs ==
    {Config(PatStatic, 0, 0, 3, 1, 1, 0, NoName),
     Config(PatStatic, 0, 0, 3, 0, 1, 0, NoName),
     Config(PatTimed, 0, 0, 3, 1, 1, 0, NoName),
     Config(PatTimed, 0, 0, 3, 0, 1, 0, NoName),
     Config(PatDotted, 0, 0, 3, 0, 1, 0, NoName)}

InitActive ==
    \E cfg \in ActiveConfigs, dir \in {EmptyDir, OldDir} : InitWith(cfg, UTC, dir)

NextActive ==
    \/ \E len \in Lens : WriteBegin(Caller, Record(len, 0), NoPlan)
    \/ WriteEnd(Caller, Len(arg[Caller].data), NoPlan)
    \/ Rotate(Caller, NoPlan)
    \/ WorkerStart(Miller)
    \/ MillStart
    \/ MillRetain
    \/ Tick

SpecActive == InitActive /\ [][NextActive]_vars

\* synchronous loggers with maxSize 2 or 3, without and with a wrap, an
\* interval and a retention, in an empty directory or in one that holds the
\* files of an earlier run, on a filesystem whose calls may fail and whose
\* writes may be short; the k-th record is filled with the byte k
SizeConfigs ==
    {Config(PatStatic, 0, 0, 2, 0, 0, 0, NoName),
     Config(PatStatic, 0, 1, 2, 0, 0, 0, NoName),
     Config(PatTimed, 2, 0, 3, 0, 0, 0, NoName),
     Config(PatStatic, 0, 0, 3, 1, 1, 0, NoName)}

InitSize ==
    \E cfg \in SizeConfigs, dir \in {EmptyDir, OldDir} : InitWith(cfg, UTC, dir)

NextSize ==
    \/ \E len \in ReopenLens, plan \in Plans :
           WriteBegin(Caller, Record(len, calls.writes + 1), plan)
    \/ \E wn \in 0..3, plan \in Plans : WriteEnd(Caller, wn, plan)
    \/ \E plan \in Plans : Rotate(Caller, plan)
    \/ CloseQuit(Caller)
    \/ CloseWait(Caller)
    \/ CloseFile(Caller, NoPlan)
    \/ WorkerStart(Miller)
    \/ MillStart
    \/ MillRetain
    \/ Tick

SpecSize == InitSize /\ [][NextSize]_vars

\* a synchronous and a buffered logger shared by two goroutines that
\* write, rotate and close it once.  A goroutine that is in a call goes on:
\* its filesystem calls return and it gets the lock when the lock stays
\* free (weak fairness of the steps of the calls, written with ENABLED for
\* the states in which the step is waited for); the goroutines New starts
\* get to run; a write by the write goroutine returns.  Nothing else is
\* assumed of the two goroutines of the logger: they may stop in their loop
\* for ever.
OneClose(p) == calls.closes = 0 /\ CloseQuit(p)

Returns(p) ==
    /\ []<>~(pc[p] = "write"
                /\ ENABLED WriteEnd(p, Len(arg[p].data), NoPlan))
    /\ []<>~(pc[p] = "send" /\ ENABLED BufferedSend(p))
    /\ []<>~(pc[p] = "closeWait" /\ ENABLED CloseWait(p))
    /\ []<>~(pc[p] = "closeLock" /\ ENABLED CloseFile(p, NoPlan))

InitLive == \E cfg \in SharedConfigs : InitWith(cfg, UTC, EmptyDir)

NextLive ==
    \/ \E p \in Producers : WriteBegin(p, Record(3, 0), NoPlan)
    \/ \E p \in Producers : WriteEnd(p, Len(arg[p].data), NoPlan)
    \/ \E p \in Producers : Rotate(p, NoPlan)
    \/ \E p \in Producers : BufferedWrite(p, Record(3, 0))
    \/ \E p \in Producers : BufferedSend(p)
    \/ \E p \in Producers : OneClose(p)
    \/ \E p \in Producers : CloseWait(p)
    \/ \E p \in Producers : CloseFile(p, NoPlan)
    \/ \E w \in {Writer, Miller} : WorkerStart(w)
    \/ \E w \in {Writer, Miller} : WorkerQuit(w)
    \/ \E w \in {Writer, Miller} : WorkerExit(w)
    \/ WriterRecv
    \/ WriteBegin(Writer, arg[Writer].data, NoPlan)
    \/ WriteEnd(Writer, Len(arg[Writer].data), NoPlan)
    \/ MillStart
    \/ MillLink
    \/ MillRetain

SpecLive ==
    /\ InitLive
    /\ [][NextLive]_vars
    /\ \A p \in Producers : Returns(p)
    /\ \A w \in {Writer, Miller} : WF_vars(WorkerStart(w))
    /\ []<>~(pc[Writer] = "write"
                /\ ENABLED WriteEnd(Writer, Len(arg[Writer].data), NoPlan))

\* locations whose offset changes at the instant 2: one hour forward (the
\* start of daylight saving time) and one hour back
Spring == [before |-> 0, after |-> 1, switch |-> 2]
Autumn == [before |-> 1, after |-> 0, switch |-> 2]

\* a synchronous logger with an interval, created at the instant 0 or 1
\* with a clock in a location with or without a change of offset
InitDst ==
    \E cfg \in ZoneConfigs, zone \in {UTC, Tokyo, Spring, Autumn}, unix \in {0, 1} :
        InitAt(cfg, zone, EmptyDir, unix)

NextDst ==
    \/ \E len \in Lens : WriteBegin(Caller, Record(len, 0), NoPlan)
    \/ WriteEnd(Caller, Len(arg[Caller].data), NoPlan)
    \/ Rotate(Caller, NoPlan)
    \/ Tick

SpecDst == InitDst /\ [][NextDst]_vars

SpecTrigger ==
    /\ InitTrigger
    /\ [][NextTrigger]_vars
    /\ WF_vars(WorkerStart(Miller))
    /\ WF_vars(MillStart)
    /\ WF_vars(MillLink)
    /\ WF_vars(MillRetain)

----------------------------------------------------------------------------
(* Properties.                                                             *)

C2_BufferedWrite ==
    [][/\ discards' >= discards
       /\ calls'.buffered = calls'.enqueued + discards'
       /\ \A p \in Producers :
              (pc[p] = "send" /\ ~panicked) => ENABLED BufferedSend(p)
       /\ calls'.buffered # calls.buffered =>
              /\ calls'.buffered = calls.buffered + 1
              /\ last'.op = "buffered" /\ last'.err = "nil"
              /\ last'.n = Len(last'.data)
              /\ \/ /\ writeCh' = Append(writeCh, last'.data)
                    /\ discards' = discards
                 \/ /\ writeCh' = writeCh
                    /\ discards' = discards + 1]_vars

\* one record was enqueued and another discarded at a full channel
C2_Witness ==
    /\ opts.writeChSize > 0
    /\ calls.enqueued = 1 /\ discards = 1 /\ calls.buffered = 2
    /\ last.op = "buffered" /\ last.disc

\* C3: Close returns only after the mill worker and, in buffered mode, the
\* write worker have returned from their loops: once a Close has returned,
\* every worker the Logger has is done and none is in a write or a mill
\* cycle.
C3_CloseWaitsForWorkers ==
    calls.closed > 0 =>
        \A w \in {Writer, Miller} : pc[w] \in {"none", "done"}

\* C4: a Close called after a Close has returned returns normally and
\* leaves the Logger as the first Close left it: no panic, a nil error, no
\* file.
C4_CloseIdempotent ==
    [][/\ (calls.closed > 0 /\ calls'.closes = calls.closes + 1) => ~panicked'
       /\ (calls.closed > 0 /\ calls'.closed = calls.closed + 1) =>
              /\ last'.err = "nil"
              /\ file' = file /\ ~file.open
              /\ quit' = quit]_vars

\* C5: once a Close has returned no step of a Write panics, neither in
\* a producer nor in the write worker, and a buffered Write is never made
\* to wait at its send.
C5_WriteAfterClose ==
    [][/\ (calls.closed > 0 /\ calls'.closes = calls.closes) =>
              panicked' = panicked
       /\ \A p \in Producers :
              (calls.closed > 0 /\ ~panicked /\ pc[p] = "send") =>
                  ENABLED BufferedSend(p)]_vars

\* a Write called after a Close had returned wrote its record
C5_Witness ==
    /\ last.op = "write" /\ last.afterClose
    /\ last.err = "nil" /\ last.n = Len(last.data) /\ last.n > 0
    /\ calls.closed > 0 /\ ~panicked

\* C6: in a synchronous Write with maxSize > 0, if size + len(record) >
\* maxSize after the freshness check, the Logger rotates before it writes:
\* the record starts at offset 0 of the file that rotation opened, and
\* after a successful Write size is the number of bytes this call wrote;
\* if size + len(record) <= maxSize the factors rotate only for the
\* interval.  Example (maxSize 2 and 3-byte records for maxSize 10 and
\* 13-byte records): two such writes into an empty directory leave exactly
\* log, log.1 and log.2.
C6_SizeTriggeredRotation ==
    LET exceeded == last.size0 + Len(last.data) > opts.maxSize
        byFactors == Len(last.rots) - last.rots0
        intervalPassed ==
            /\ maxIntervalSeconds > 0
            /\ last.rotationTime0 #
                   evalCurrRotationTime([clock EXCEPT !.unix = last.t0],
                                        tzOffsetSeconds, maxIntervalSeconds)
    IN /\ (opts.writeChSize = 0 /\ opts.maxSize > 0 /\ last.op = "write") =>
              /\ (exceeded /\ last.path # NoName) =>
                     /\ byFactors = 1
                     /\ last.path = last.rots[Len(last.rots)].name
                     /\ last.pre = <<>>
              /\ (exceeded /\ last.err = "nil") =>
                     /\ last.size = last.n
                     /\ last.post = last.data
              /\ (~exceeded /\ ~intervalPassed) => byFactors = 0
       /\ (/\ opts = Config(PatStatic, 0, 0, 2, 0, 0, 0, NoName)
           /\ dir0 = EmptyDir
           /\ calls.writes = 2 /\ calls.bytes = 6 /\ pc[Caller] = "idle"
           /\ calls.rotates = 0 /\ calls.faults = 0) =>
              DOMAIN fs = {<<"log">>, <<"log", ".", "1">>, <<"log", ".", "2">>}

\* the second of two 3-byte writes found size 3, rotated and left three files
C6_Witness ==
    /\ opts = Config(PatStatic, 0, 0, 2, 0, 0, 0, NoName)
    /\ dir0 = EmptyDir
    /\ calls.writes = 2 /\ calls.bytes = 6 /\ pc[Caller] = "idle"
    /\ calls.rotates = 0 /\ calls.faults = 0
    /\ last.op = "write" /\ last.err = "nil"
    /\ last.size0 = 3 /\ last.n = 3 /\ last.size = 3
    /\ last.path = <<"log", ".", "2">>
    /\ Cardinality(DOMAIN fs) = 3

\* C7 as stated: with interval rotation enabled, a synchronous Write in
\* which the size trigger did not fire and the truncation of the current
\* time differs from currRotationTime rotates before writing, so the record
\* goes to a file whose name differs from the previous active file; and
\* after a successful Write during which the clock did not advance,
\* currRotationTime is the truncation of the current time.
C7_AsStated ==
    LET sizeFired == opts.maxSize > 0
                     /\ last.size0 + Len(last.data) > opts.maxSize
        truncation(t) == evalCurrRotationTime([clock EXCEPT !.unix = t],
                                              tzOffsetSeconds,
                                              maxIntervalSeconds)
    IN (opts.writeChSize = 0 /\ maxIntervalSeconds > 0 /\ last.op = "write") =>
           /\ (/\ last.path # NoName /\ ~sizeFired
               /\ last.rotationTime0 # truncation(last.t0)) =>
                  /\ Len(last.rots) - last.rots0 = 1
                  /\ last.path # last.prevName
           /\ (last.err = "nil" /\ last.t0 = last.t1) =>
                  last.rotationTime = truncation(last.t1)

\* C7, amended: the interval-triggered rotation sends the record to an
\* empty, newly opened file, whose name differs from the previous active
\* file unless the base filename is unchanged and currSequence already is
\* maxSequence > 0: then the record goes to the wrap slot again, truncated.
\* After a successful Write during which the clock did not advance,
\* currRotationTime is the truncation of the current time.
C7_IntervalRotation ==
    LET sizeFired == opts.maxSize > 0
                     /\ last.size0 + Len(last.data) > opts.maxSize
        truncation(t) == evalCurrRotationTime([clock EXCEPT !.unix = t],
                                              tzOffsetSeconds,
                                              maxIntervalSeconds)
        r == last.rots[Len(last.rots)]
    IN (opts.writeChSize = 0 /\ maxIntervalSeconds > 0 /\ last.op = "write") =>
           /\ (/\ last.path # NoName /\ ~sizeFired
               /\ last.rotationTime0 # truncation(last.t0)) =>
                  /\ Len(last.rots) - last.rots0 = 1
                  /\ last.path = r.name
                  /\ last.pre = <<>>
                  /\ \/ last.path # last.prevName
                     \/ /\ opts.maxSequence > 0
                        /\ r.sameBase
                        /\ r.fromSeq = opts.maxSequence
                        /\ last.path = genFilename(r.base, opts.maxSequence)
           /\ (last.err = "nil" /\ last.t0 = last.t1) =>
                  last.rotationTime = truncation(last.t1)

\* an interval-triggered rotation took a 1-byte record to a new name
C7_Witness ==
    /\ opts.writeChSize = 0 /\ maxIntervalSeconds > 0
    /\ last.op = "write" /\ last.err = "nil" /\ last.n = 1
    /\ last.size0 = 1
    /\ last.rotationTime0 # last.rotationTime
    /\ Len(last.rots) - last.rots0 = 1
    /\ last.path # last.prevName /\ last.prevName # NoName

\* C8: after every successful rotation, by Rotate, by size, by interval or
\* at the reopening of a full file, size is 0 and the file currFilename
\* names either did not exist immediately before the rotation or is the
\* wrap slot currBaseFilename.maxSequence: no other file that existed is
\* truncated or appended to by a rotation.
C8_RotationTarget ==
    \A i \in 1..Len(last.rots) :
        LET r == last.rots[i]
        IN /\ r.size = 0
           /\ \/ ~r.existed
              \/ /\ opts.maxSequence > 0
                 /\ r.name = genFilename(r.base, opts.maxSequence)

\* a Write rotated away from its active file to a name that did not exist,
\* while another file kept its bytes
C8_Witness ==
    /\ last.op = "write" /\ last.err = "nil"
    /\ Len(last.rots) = 1 /\ last.rots0 = 0
    /\ ~last.rots[1].existed /\ last.rots[1].size = 0
    /\ last.rots[1].from # NoName
    /\ last.pre = <<>>
    /\ \E n \in DOMAIN fs : n # last.path /\ fs[n].content # <<>>

\* C9: in every state, whatever Writes, Rotates and Closes succeeded or
\* failed before, currFilename is currBaseFilename exactly when
\* currSequence is 0, and otherwise it is currBaseFilename, a dot and
\* currSequence in decimal.
C9_NameOfSequence ==
    /\ (currFilename = currBaseFilename) <=> (currSequence = 0)
    /\ currSequence # 0 =>
           currFilename = currBaseFilename \o <<".">> \o Decimal(currSequence)

\* a failed Write has moved the sequence on, past a Close
C9_Witness ==
    /\ currSequence > 0
    /\ currFilename = currBaseFilename \o <<".">> \o Decimal(currSequence)
    /\ last.op = "write" /\ last.err # "nil"
    /\ calls.closed > 0
    /\ ~file.open

\* C10: with maxSequence = m > 0, currSequence never exceeds m; every file
\* the Logger opens is base, base.1, ..., or base.m of the base filename in
\* force, so the directory never holds more than m + 1 files of one base;
\* and a rotation that starts at sequence m under an unchanged base opens
\* base.m again, empty.
C10_MaxSequence ==
    LET m == opts.maxSequence
        OfBase(n, base) ==
            \/ n = base
            \/ /\ Len(n) > Len(base) + 1
               /\ SubSeq(n, 1, Len(base)) = base
               /\ n[Len(base) + 1] = "."
               /\ \A i \in (Len(base) + 2)..Len(n) : IsDigit(n[i])
    IN m > 0 =>
           /\ currSequence <= m
           /\ \A o \in opened :
                  /\ \E k \in 0..m : o.name = genFilename(o.base, k)
                  /\ Cardinality({n \in DOMAIN fs : OfBase(n, o.base)}) <= m + 1
           /\ \A i \in 1..Len(last.rots) :
                  (last.rots[i].sameBase /\ last.rots[i].fromSeq = m) =>
                      /\ last.rots[i].name = genFilename(last.rots[i].base, m)
                      /\ last.rots[i].empty

\* at the cap, with m + 1 files of the base, a Write rotated into base.m
C10_Witness ==
    /\ opts.maxSequence > 0
    /\ currSequence = opts.maxSequence
    /\ last.op = "write" /\ last.err = "nil"
    /\ Len(last.rots) = 1
    /\ last.rots[1].sameBase /\ last.rots[1].fromSeq = opts.maxSequence
    /\ last.rots[1].existed /\ last.rots[1].empty
    /\ last.path = genFilename(currBaseFilename, opts.maxSequence)
    /\ Cardinality({n \in DOMAIN fs :
                       \E k \in 0..opts.maxSequence :
                           n = genFilename(currBaseFilename, k)})
           = opts.maxSequence + 1

\* C11 as stated: while the base filename does not change, maxSequence is
\* 0 and the directory held no file of that base at the start, the k-th
\* successful Rotate after a first Write leaves currFilename = base.k, and
\* that file exists.
C11_AsStated ==
    [][LET OfBase(n, base) ==
               \/ n = base
               \/ /\ Len(n) > Len(base) + 1
                  /\ SubSeq(n, 1, Len(base)) = base
                  /\ n[Len(base) + 1] = "."
       IN (/\ opts.writeChSize = 0 /\ opts.maxSequence = 0
           /\ calls.writes > 0 /\ calls'.early = 0
           /\ calls'.rotated = calls.rotated + 1
           /\ \A o \in opened' : o.base = currBaseFilename'
           /\ \A n \in DOMAIN dir0 : ~OfBase(n, currBaseFilename')) =>
              /\ currFilename' =
                     currBaseFilename' \o <<".">> \o Decimal(calls'.rotated)
              /\ Exists(fs', currFilename')]_vars

\* C11, amended: while the base filename does not change, maxSequence is 0
\* and the directory held no file of that base at the start, a successful
\* Rotate after a first Write moves currSequence on by one, to some j, and
\* leaves currFilename = base.j, a file that did not exist before and now
\* exists, empty; for the k-th such Rotate j >= k, and j = k when maxSize is
\* 0 and no filesystem call has failed; currSequence never goes back, so
\* successive Rotate calls never yield the same filename twice.
C11_RotateSequence ==
    [][LET OfBase(n, base) ==
               \/ n = base
               \/ /\ Len(n) > Len(base) + 1
                  /\ SubSeq(n, 1, Len(base)) = base
                  /\ n[Len(base) + 1] = "."
       IN /\ (/\ opts.maxSequence = 0 /\ currBaseFilename # NoName
              /\ currBaseFilename' = currBaseFilename) =>
                 currSequence' >= currSequence
          /\ (/\ opts.writeChSize = 0 /\ opts.maxSequence = 0
              /\ calls.writes > 0 /\ calls'.early = 0
              /\ calls'.rotated = calls.rotated + 1
              /\ \A o \in opened' : o.base = currBaseFilename'
              /\ \A n \in DOMAIN dir0 : ~OfBase(n, currBaseFilename')) =>
                 /\ currSequence' = currSequence + 1
                 /\ currFilename' =
                        currBaseFilename' \o <<".">> \o Decimal(currSequence')
                 /\ ~Exists(fs, currFilename')
                 /\ Exists(fs', currFilename')
                 /\ fs'[currFilename'].content = <<>>
                 /\ currSequence' >= calls'.rotated
                 /\ (opts.maxSize = 0 /\ calls'.faults = 0) =>
                        currSequence' = calls'.rotated]_vars

\* the second Rotate after a Write into an empty directory opened log.2
C11_Witness ==
    /\ opts.maxSequence = 0 /\ opts.maxSize = 0 /\ dir0 = EmptyDir
    /\ calls.writes > 0 /\ calls.early = 0 /\ calls.faults = 0
    /\ calls.rotated = 2
    /\ last.op = "rotate" /\ last.err = "nil"
    /\ currFilename = <<"log", ".", "2">>
    /\ DOMAIN fs = {<<"log">>, <<"log", ".", "1">>, <<"log", ".", "2">>}

\* C12 as stated: whenever the filename is evaluated and the truncated
\* time differs from currRotationTime, currRotationTime becomes the
\* truncated time, the base is recomputed and currSequence is reset to 0, so
\* the file of the new interval is the base without a suffix (unless a new
\* file is forced and that file exists); and a successful Rotate at sequence
\* 0 within the interval yields the name base.1.
C12_AsStated ==
    [][LET now == evalCurrRotationTime(clock, tzOffsetSeconds,
                                       maxIntervalSeconds)
           newBase == genBaseFilename(opts.pattern, clock, now)
           Evaluated(e, forced) ==
               /\ e.currRotationTime = now
               /\ e.currBaseFilename = newBase
               /\ (~forced \/ ~Exists(fs, newBase)) =>
                      /\ e.currSequence = 0
                      /\ e.currFilename = newBase
       IN /\ (/\ maxIntervalSeconds > 0 /\ currBaseFilename # NoName
              /\ currRotationTime # now) =>
                 \A w \in Lens \cup {0}, f \in BOOLEAN :
                     /\ Evaluated(evalCurrentFilename(Start(NoPlan), w, f), f)
                     /\ Evaluated(evalCurrentFilename(close(Start(NoPlan)),
                                                      w, f), f)
          /\ (/\ maxIntervalSeconds > 0 /\ currBaseFilename # NoName
              /\ currRotationTime = now /\ currSequence = 0
              /\ calls'.rotated = calls.rotated + 1) =>
                 currFilename' = currBaseFilename \o <<".", "1">>]_vars

\* C12, amended: whenever the filename is evaluated and the truncated time
\* differs from currRotationTime, currRotationTime becomes the truncated
\* time and the base is recomputed; if the recomputed base differs from the
\* current one, currSequence is reset to 0 and the file of the new interval
\* is the new base without a suffix (unless a new file is forced and that
\* file exists); if the base is the same, the sequence is not reset: it is
\* kept or moved on, never moved back.  A successful Rotate at sequence 0
\* within the interval yields the name base.1 when no file base.1 exists.
C12_IntervalReset ==
    [][LET now == evalCurrRotationTime(clock, tzOffsetSeconds,
                                       maxIntervalSeconds)
           newBase == genBaseFilename(opts.pattern, clock, now)
           Evaluated(e, forced) ==
               /\ e.currRotationTime = now
               /\ e.currBaseFilename = newBase
               /\ (/\ newBase # currBaseFilename
                   /\ (~forced \/ ~Exists(fs, newBase))) =>
                      /\ e.currSequence = 0
                      /\ e.currFilename = newBase
               /\ newBase = currBaseFilename =>
                      /\ e.currSequence >= currSequence
                      /\ e.currFilename = genFilename(newBase, e.currSequence)
       IN /\ (/\ maxIntervalSeconds > 0 /\ currBaseFilename # NoName
              /\ currRotationTime # now) =>
                 \A w \in Lens \cup {0}, f \in BOOLEAN :
                     /\ Evaluated(evalCurrentFilename(Start(NoPlan), w, f), f)
                     /\ Evaluated(evalCurrentFilename(close(Start(NoPlan)),
                                                      w, f), f)
          /\ (/\ maxIntervalSeconds > 0 /\ currBaseFilename # NoName
              /\ currRotationTime = now /\ currSequence = 0
              /\ ~Exists(fs, currBaseFilename \o <<".", "1">>)
              /\ calls'.rotated = calls.rotated + 1) =>
                 currFilename' = currBaseFilename \o <<".", "1">>]_vars

\* a Write crossed into the interval of log2, and the Rotate that followed
\* opened log2.1
C12_Witness ==
    /\ opts.pattern = PatTimed /\ maxIntervalSeconds > 0
    /\ last.op = "rotate" /\ last.err = "nil"
    /\ currBaseFilename = <<"log", "2">>
    /\ last.prevName = <<"log", "2">>
    /\ currFilename = <<"log", "2", ".", "1">>
    /\ \E o \in opened : o.base = <<"log", "0">>
    /\ Exists(fs, <<"log", "2">>) /\ Exists(fs, currFilename)

\* C13: with interval rotation disabled, currRotationTime and
\* currBaseFilename are set once, on first use, to the time of that use and
\* to the pattern expanded at it, and no Write, Rotate or tick of the clock
\* changes them afterwards; only currSequence (and with it currFilename)
\* varies.
C13_BaseSetOnce ==
    [][maxIntervalSeconds = 0 =>
           /\ currBaseFilename = NoName => currRotationTime = 0
           /\ (currBaseFilename = NoName /\ currBaseFilename' # NoName) =>
                  /\ currRotationTime' = clock.unix
                  /\ currBaseFilename' =
                         genBaseFilename(opts.pattern, clock, clock.unix)
           /\ currBaseFilename # NoName =>
                  /\ currRotationTime' = currRotationTime
                  /\ currBaseFilename' = currBaseFilename
                  /\ currFilename' = genFilename(currBaseFilename, currSequence')
          ]_vars

\* the base log1 of second 1 is still in force at second 2, two rotations
\* later
C13_Witness ==
    /\ maxIntervalSeconds = 0 /\ opts.pattern = PatTimed
    /\ clock.unix = 2 /\ currRotationTime = 1
    /\ currBaseFilename = <<"log", "1">>
    /\ last.op = "rotate" /\ last.err = "nil" /\ last.t0 = 2
    /\ currSequence = 2
    /\ currFilename = <<"log", "1", ".", "2">>

\* C14: for every instant t, also one whose local epoch second is negative,
\* and every interval > 0, the rotation time a Write or Rotate at t
\* evaluates is a multiple of the interval and
\* 0 <= localUnix(t) - rotation time < interval, where localUnix(t) is
\* t.unix() plus the zone offset.
C14_TruncationInInterval ==
    (/\ maxIntervalSeconds > 0
     /\ last.op \in {"write", "rotate"} /\ last.err = "nil"
     /\ last.t0 = last.t1) =>
        LET local == last.t1 + tzOffsetSeconds
            result == last.rotationTime
        IN /\ result % maxIntervalSeconds = 0
           /\ 0 <= local - result
           /\ local - result < maxIntervalSeconds

\* C15: the base filename is the pattern expanded at the local wall-clock
\* start of the current interval in the clock's location, not at the UTC
\* boundary: a rotation at the instant t opens a file whose base is the
\* pattern expanded at the greatest multiple of the interval that is not
\* after the local second of t, and Rotate on a fresh sink leaves
\* currFilename at that base (for a 24 h interval and 03:18 local time in
\* Asia/Tokyo or Pacific/Honolulu, at 00:00 of the same local day).
C15_LocalBoundary ==
    (/\ maxIntervalSeconds > 0
     /\ last.op \in {"write", "rotate"} /\ last.err = "nil"
     /\ last.t0 = last.t1) =>
        LET local == last.t1 + OffsetAt(clock.zone, last.t1)
            start == local - (local % maxIntervalSeconds)
            base == FormatString(opts.pattern, start)
        IN /\ last.rots # <<>> => last.rots[Len(last.rots)].base = base
           /\ (last.op = "rotate" /\ calls.rotates = 1 /\ calls.writes = 0) =>
                  last.name = base

\* C16 as stated: if the active file, with its whole directory, is removed
\* from outside between two synchronous Writes, the next Write (no call of
\* which fails) detects it, creates a file at the same currFilename, without
\* advancing currSequence, when maxSize = 0 or len(record) <= maxSize, and
\* returns (len(record), nil) with the record stored in the new file.
C16_AsStated ==
    [][/\ (/\ opts.writeChSize = 0 /\ pc[Caller] = "idle"
           /\ calls'.writes = calls.writes + 1
           /\ calls'.faults = calls.faults /\ ~denied
           /\ file.open /\ orphan.is /\ orphan.by = "extern") =>
              pc'[Caller] = "write"
       /\ (/\ opts.writeChSize = 0
           /\ pc[Caller] = "write" /\ pc'[Caller] = "idle"
           /\ arg[Caller].gone /\ calls'.faults = arg[Caller].faults0
           /\ ~denied) =>
              /\ last'.err = "nil" /\ last'.n = Len(last'.data)
              /\ last'.pre = <<>>
              /\ last'.path = currFilename'
              /\ Exists(fs', currFilename')
              /\ fs'[currFilename'].content = last'.data
              /\ (opts.maxSize = 0 \/ Len(last'.data) <= opts.maxSize) =>
                     /\ currFilename' = arg[Caller].name0
                     /\ currSequence' = arg[Caller].seq0]_vars

\* C16, amended: if the active file, with its whole directory, is removed
\* from outside between two synchronous Writes, the next Write (no call of
\* which fails) detects it and returns (len(record), nil) with the record
\* stored alone in a newly created file.  When maxSize = 0 or
\* len(record) <= maxSize that file is at the same currFilename, with
\* currSequence not advanced, unless an interval boundary was crossed in
\* between and changed the base filename: then it is the file of the new
\* base, at sequence 0.
C16_RecreatedOnWrite ==
    [][/\ (/\ opts.writeChSize = 0 /\ pc[Caller] = "idle"
           /\ calls'.writes = calls.writes + 1
           /\ calls'.faults = calls.faults /\ ~denied
           /\ file.open /\ orphan.is /\ orphan.by = "extern") =>
              pc'[Caller] = "write"
       /\ (/\ opts.writeChSize = 0
           /\ pc[Caller] = "write" /\ pc'[Caller] = "idle"
           /\ arg[Caller].gone /\ calls'.faults = arg[Caller].faults0
           /\ ~denied) =>
              /\ last'.err = "nil" /\ last'.n = Len(last'.data)
              /\ last'.pre = <<>>
              /\ last'.path = currFilename'
              /\ Exists(fs', currFilename')
              /\ fs'[currFilename'].content = last'.data
              /\ (opts.maxSize = 0 \/ Len(last'.data) <= opts.maxSize) =>
                     IF currBaseFilename' = arg[Caller].base0
                     THEN /\ currFilename' = arg[Caller].name0
                          /\ currSequence' = arg[Caller].seq0
                     ELSE /\ maxIntervalSeconds > 0
                          /\ currSequence' = 0
                          /\ currFilename' = currBaseFilename']_vars

\* the directory was removed after a Rotate, and the next Write created
\* log.1 again and stored its record there
C16_Witness ==
    /\ opts.writeChSize = 0
    /\ last.op = "write" /\ last.err = "nil" /\ last.n = 1
    /\ last.prevName = <<"log", ".", "1">>
    /\ currFilename = <<"log", ".", "1">> /\ currSequence = 1
    /\ last.pre = <<>>
    /\ calls.rotates = 1 /\ calls.writes = 2
    /\ Exists(fs, currFilename) /\ fs[currFilename].content = last.data
    /\ ~Exists(fs, <<"log">>)
    /\ dir0 = EmptyDir

\* C17: when a file handle is present and the freshness stat of
\* currFilename fails with an error other than not-found, Write returns
\* (0, err) with err that stat error, writes nothing, triggers no mill cycle
\* and leaves file, size, currRotationTime, currFilename, currBaseFilename
\* and currSequence unchanged.
C17_StatErrorFailsWrite ==
    [][(/\ opts.writeChSize = 0 /\ pc[Caller] = "idle"
        /\ calls'.writes = calls.writes + 1
        /\ file.open
        /\ osStat(fs, currFilename) \notin {"ok", "notexist"}) =>
           /\ pc'[Caller] = "idle"
           /\ last'.op = "write" /\ last'.err = "stat" /\ last'.n = 0
           /\ UNCHANGED <<file, size, currRotationTime, currFilename,
                          currBaseFilename, currSequence, fs, orphan,
                          millCh, opened>>]_vars

\* a Write on an open file returned the stat error and left the file open
C17_Witness ==
    /\ opts.writeChSize = 0
    /\ last.op = "write" /\ last.err = "stat" /\ last.n = 0
    /\ denied /\ file.open /\ size > 0 /\ millCh = 0
    /\ file.path = currFilename
    /\ calls.writes = 2

\* C18: when the handle's write returns an error (a short write of n
\* bytes), Write makes exactly one open-existing-or-new recovery attempt,
\* writes no byte of the record after the n the handle took, and returns n
\* with a non-nil error: the write error alone when the recovery succeeded,
\* the write error joined with the recovery error when it failed.
C18_WriteErrorRecovery ==
    [][(/\ opts.writeChSize = 0
        /\ pc[Caller] = "write" /\ pc'[Caller] = "idle"
        /\ last'.n < Len(last'.data)) =>
           LET part == SubSeq(last'.data, 1, last'.n)
               mid(n) == IF n = file.path /\ ~orphan.is
                         THEN fs[n].content \o part
                         ELSE IF Exists(fs, n) THEN fs[n].content
                         ELSE <<>>
           IN /\ last'.op = "write"
              /\ last'.reopens = 1
              /\ millCh' = 1
              /\ last'.err # "nil"
              /\ file'.open => last'.err = "write"
              /\ ~file'.open =>
                     last'.err \in {"write+close", "write+open",
                                    "write+get logfile info: stat"}
              /\ \A n \in DOMAIN fs' :
                     fs'[n].kind = "file" => fs'[n].content \in {<<>>, mid(n)}
              /\ (~orphan.is /\ Exists(fs', file.path)) =>
                     fs'[file.path].content \in {<<>>, fs[file.path].content \o part}
      ]_vars

\* the handle took 1 byte of 3, the recovery reopened the file, and Write
\* returned 1 and the write error
C18_Witness ==
    /\ opts.writeChSize = 0
    /\ last.op = "write" /\ last.err = "write"
    /\ last.n = 1 /\ Len(last.data) = 3
    /\ last.reopens = 1
    /\ file.open /\ millCh = 1
    /\ Exists(fs, last.path) /\ fs[last.path].content = last.pre \o <<0>>

\* C19: with a symlink configured, whenever the sink is quiescent (no Write
\* or Rotate in progress, no pending mill trigger, the mill worker idle in
\* its loop) after a successful Write, and no filesystem call has failed and
\* nobody has removed a file, the symlink exists and resolves to the active
\* file currFilename, also when that file carries an overflow suffix.
C19_SymlinkFollowsActive ==
    (/\ opts.symlink # NoName /\ opts.writeChSize = 0
     /\ last.op = "write" /\ last.err = "nil"
     /\ pc[Caller] = "idle" /\ mu = Free
     /\ millCh = 0 /\ pc[Miller] = "loop"
     /\ calls.faults = 0 /\ ~denied /\ ~panicked) =>
        /\ Exists(fs, opts.symlink)
        /\ fs[opts.symlink].kind = "symlink"
        /\ fs[opts.symlink].target = currFilename

\* C20: a mill cycle enumerates the non-symlink files that match the glob,
\* each once, in an order in which no file ranks before the first
\* (descending modification time, ties by descending numeric suffix); the
\* symlink refresh, when it succeeds, leaves the symlink with the name of
\* that first file as its target; and the retention that ends the cycle
\* leaves the symlink as the refresh left it.
C20_SymlinkTargetsFirst ==
    [][/\ (pc[Miller] = "loop" /\ pc'[Miller] \in {"link", "retain"}) =>
              LET S == {[path |-> n, mtime |-> fs[n].mtime] :
                           n \in {m \in DOMAIN fs :
                                     /\ GlobMatch(globPattern, m)
                                     /\ fs[m].kind # "symlink"}}
              IN /\ {millFiles'[i] : i \in 1..Len(millFiles')} = S
                 /\ Len(millFiles') = Cardinality(S)
                 /\ \A i \in 1..Len(millFiles') :
                        ~Less(millFiles'[i], millFiles'[1])
       /\ (pc[Miller] = "link" /\ pc'[Miller] # "link" /\ ~denied) =>
              /\ Exists(fs', opts.symlink)
              /\ fs'[opts.symlink].kind = "symlink"
              /\ fs'[opts.symlink].target = millFiles[1].path
       /\ (pc[Miller] = "retain" /\ pc'[Miller] = "loop"
           /\ Exists(fs, opts.symlink)) =>
              /\ Exists(fs', opts.symlink)
              /\ fs'[opts.symlink] = fs[opts.symlink]]_vars

\* the refresh chose log1.1, the newest of three files, and retention is
\* about to run
C20_Witness ==
    /\ pc[Miller] = "retain"
    /\ Len(millFiles) = 3
    /\ millFiles[1].mtime > millFiles[2].mtime
    /\ Exists(fs, opts.symlink)
    /\ fs[opts.symlink].kind = "symlink"
    /\ fs[opts.symlink].target = millFiles[1].path
    /\ Ext(millFiles[1].path) = <<".", "1">>

\* C21: with maxBackups = k > 0, after the retention of a mill cycle during
\* which no file was created or removed by anyone else and no removal
\* failed, at most k non-symlink files matching the glob remain; they are
\* the k highest-ranked of the enumerated files that passed the age filter
\* (all of them when fewer than k passed), and the active file counts
\* towards k.  Example: five files of the pattern in the directory,
\* maxBackups = 2, one Write: once the mill is idle again exactly 2 files
\* remain.
C21_MaxBackups ==
    [][LET Matching(dir) ==
               {n \in DOMAIN dir : /\ GlobMatch(globPattern, n)
                                   /\ dir[n].kind # "symlink"}
           k == opts.maxBackups
           cutoff == clock.unix - opts.maxAge
           passed == {f \in {millFiles[i] : i \in 1..Len(millFiles)} :
                         ~(opts.maxAge > 0 /\ f.mtime < cutoff)}
           kept == {f \in passed : f.path \in DOMAIN fs'}
       IN /\ (/\ pc[Miller] = "retain" /\ pc'[Miller] = "loop"
              /\ k > 0 /\ ~denied
              /\ Matching(fs) = {millFiles[i].path : i \in 1..Len(millFiles)}) =>
                 /\ Cardinality(Matching(fs')) <= k
                 /\ Matching(fs') = {f.path : f \in kept}
                 /\ Cardinality(kept) =
                        (IF Cardinality(passed) < k THEN Cardinality(passed) ELSE k)
                 /\ \A f \in kept, g \in passed \ kept : ~Less(g, f)
                 /\ (file.open /\ ~orphan.is /\ file.path \in Matching(fs')) =>
                        Cardinality(Matching(fs') \ {file.path}) <= k - 1
          /\ (/\ opts' = Config(PatTimed, 0, 0, 2, 0, 2, 0, NoName)
              /\ dir0' = BackupDir(PatTimed)
              /\ calls'.writes = 1 /\ calls'.rotates = 0 /\ calls'.faults = 0
              /\ last'.op = "write" /\ last'.err = "nil"
              /\ pc'[Caller] = "idle"
              /\ millCh' = 0 /\ pc'[Miller] = "loop") =>
                 Cardinality(Matching(fs')) = 2]_vars

\* six files were enumerated after the one Write, and the retention left
\* the two newest, the active file among them
C21_Witness ==
    /\ opts = Config(PatTimed, 0, 0, 2, 0, 2, 0, NoName)
    /\ dir0 = BackupDir(PatTimed)
    /\ calls.writes = 1 /\ calls.rotates = 0 /\ calls.faults = 0
    /\ last.op = "write" /\ last.err = "nil"
    /\ pc[Caller] = "idle" /\ millCh = 0 /\ pc[Miller] = "loop"
    /\ DOMAIN fs = {<<"log", "1">>, <<"log", "0">>}
    /\ file.path = <<"log", "1">> /\ ~orphan.is

C23_CreatedFilesMatchGlob ==
    /\ \A o \in opened : GlobMatch(globPattern, o.name)
    /\ (/\ opts.maxBackups > 0 /\ opened # {}
        /\ pc[Caller] = "idle" /\ mu = Free
        /\ millCh = 0 /\ pc[Miller] = "loop"
        /\ calls.faults = 0 /\ ~denied /\ ~panicked) =>
           Cardinality({n \in DOMAIN fs : \E o \in opened : o.name = n})
               <= opts.maxBackups

\* C24: the synchronous write path, Rotate and the file-closing part of
\* Close exclude one another: at most one goroutine is inside write, and it
\* holds the lock; while it is inside, no Write, Rotate or Close of another
\* goroutine changes file, size, the rotation time, the names, the sequence
\* or the bytes of the file it is about to write; and the bytes of its
\* record go, in one piece, to the end of that one file, so that the
\* records of two concurrent Writes are never interleaved and no rotation
\* falls inside a record.
C24_MutualExclusion ==
    [][LET inside == {p \in Procs : pc[p] = "write"}
       IN /\ Cardinality(inside) <= 1
          /\ \A p \in Procs : (pc[p] = "write") <=> (mu = p)
          /\ \A p \in inside :
                 /\ pc'[p] = "write" =>
                        /\ UNCHANGED <<file, size, currRotationTime,
                                       currFilename, currBaseFilename,
                                       currSequence, mu, opened>>
                        /\ calls'.rotates = calls.rotates
                        /\ calls'.closed = calls.closed
                        /\ (Exists(fs, file.path) /\ Exists(fs', file.path)) =>
                               fs'[file.path].content = fs[file.path].content
                 /\ (pc'[p] # "write" /\ ~panicked') =>
                        /\ last'.op = "write" /\ last'.data = arg[p].data
                        /\ last'.path = file.path
                        /\ last'.rots = arg[p].rots
                        /\ last'.err = "nil" =>
                               /\ last'.post = last'.pre \o arg[p].data
                               /\ file' = file
                               /\ (~orphan.is /\ Exists(fs, file.path)) =>
                                      /\ last'.pre = fs[file.path].content
                                      /\ fs'[file.path].content = last'.post
         ]_vars

\* one goroutine is inside write, holding the lock, on a file that already
\* holds a record, and the Rotate of the other goroutine has to wait
C24_Witness ==
    /\ opts.writeChSize = 0
    /\ pc["p1"] = "write" /\ mu = "p1"
    /\ pc["p2"] = "idle" /\ calls.rotates < MaxRotates /\ ~panicked
    /\ ~ENABLED Rotate("p2", NoPlan)
    /\ file.open /\ Exists(fs, file.path) /\ fs[file.path].content # <<>>

\* C25: in buffered mode the write worker hands the records to the
\* synchronous write path in exactly the order in which they were enqueued:
\* the records handed over so far are the first of the records enqueued,
\* and the others are still in the channel or with the worker.  For a single
\* producer whose k-th Write carries the tag k, the records enqueued and the
\* records on disk (within a file, and from a file to the files of higher
\* sequence) are in the order of the calls, the calls missing among the
\* enqueued records are exactly the discarded ones, and every record handed
\* over is on disk once its write has returned.
C25_EnqueueOrder ==
    LET sent == calls.sent
        handed == calls.handed
        Tags(s) == {s[i] : i \in 1..Len(s)}
        inSend == {Tag(arg[p].data) : p \in {q \in Producers : pc[q] = "send"}}
        files == {n \in DOMAIN fs : fs[n].kind = "file"}
    IN opts.writeChSize > 0 =>
           /\ Len(handed) <= Len(sent)
           /\ handed = SubSeq(sent, 1, Len(handed))
           /\ Len(sent) = Len(handed) + Len(writeCh)
                              + (IF pc[Writer] = "recv" THEN 1 ELSE 0)
           /\ \A i \in 1..Len(writeCh) :
                  Tag(writeCh[i]) =
                      sent[Len(sent) - Len(writeCh) + i]
           /\ \A i, j \in 1..Len(sent) : i < j => sent[i] < sent[j]
           /\ Tags(sent) \subseteq 1..calls.writes
           /\ Cardinality((1..calls.writes) \ (Tags(sent) \cup inSend)) = discards
           /\ Tags(handed) \ UNION {Tags(fs[n].content) : n \in files}
                  \subseteq (IF pc[Writer] = "write"
                             THEN {Tag(arg[Writer].data)} ELSE {})
           /\ \A n \in files :
                  /\ Tags(fs[n].content) \subseteq Tags(handed)
                  /\ \A i, j \in 1..Len(fs[n].content) :
                         i < j => fs[n].content[i] <= fs[n].content[j]
           /\ \A n, m \in files :
                  parseSuffixSeq(n) < parseSuffixSeq(m) =>
                      \A a \in Tags(fs[n].content), b \in Tags(fs[m].content) :
                          a < b

\* the second of three Writes was discarded at the full channel, and the
\* first and the third are on disk, in that order
C25_Witness ==
    /\ opts.writeChSize = 1 /\ discards = 1
    /\ calls.sent = <<1, 3>> /\ calls.handed = <<1, 3>>
    /\ Exists(fs, <<"log">>) /\ fs[<<"log">>].content = <<1, 3>>
    /\ pc[Writer] = "loop" /\ writeCh = <<>>

\* C26: when the mill refreshes the symlink L for the newest file M, the
\* refresh succeeds and the target stored in L is the last element of M when
\* L and M are in the same directory; a relative path that leads from the
\* directory of L to M when the path L contains the directory of M
\* (../../name for a link two levels below); and the path M as it is
\* otherwise.
C26_LinkTarget ==
    [][(pc[Miller] = "link" /\ pc'[Miller] # "link") =>
           LET M == millFiles[1].path
               L == opts.symlink
               target == fs'[L].target
               Up(s) == SubSeq(s, 1, Len(s) - 1)
               Walk(at, e) == IF e = <<"..">> THEN Up(at) ELSE Append(at, e)
               Resolve(elems) ==
                   LET walk[k \in 0..Len(elems)] ==
                           IF k = 0
                           THEN (IF Dir(L) = <<".">> THEN <<>> ELSE Split(Dir(L)))
                           ELSE Walk(walk[k - 1], elems[k])
                   IN walk[Len(elems)]
           IN /\ Exists(fs', L)
              /\ fs'[L].kind = "symlink"
              /\ IF Dir(L) = Dir(M) THEN target = Base(M)
                 ELSE IF Contains(L, Dir(M))
                 THEN /\ ~IsAbs(target)
                      /\ Resolve(Split(target)) = Split(M)
                      /\ Split(Dir(L)) = Split(Dir(M)) \o <<<<"a">>, <<"b">>>> =>
                             target = <<"..", Sep, "..", Sep>> \o Base(M)
                 ELSE target = M]_vars

\* C27: parseGlobPattern(p) is p with every directive ("%" and the "%", "+"
\* or letter after it, matched from the left) and every run of "*" replaced
\* by one "*" and every other character as it was; directives and stars
\* side by side give one "*", so the result never holds "**";
\* test_%Y%m%d%H%M%S.log gives test_*.log, test_%%Y%m%d%H%M%S gives
\* test_*Y*, test_***%Y%m%d%H%M%S** gives test_*; and parseGlobPattern of
\* the result is the result.
C27_GlobPattern ==
    last.op = "glob" =>
        LET p == last.data
            g == last.post
            n == Len(p)
            start[i \in 0..n] ==
                IF i = 0 THEN FALSE
                ELSE /\ p[i] = "%"
                     /\ i < n
                     /\ p[i + 1] \in {"%", "+"} \cup Letters
                     /\ ~start[i - 1]
            covered(i) == i >= 1 /\ (p[i] = "*" \/ start[i] \/ start[i - 1])
            piece(i) == IF ~covered(i) THEN <<p[i]>>
                        ELSE IF covered(i - 1) THEN <<>> ELSE <<"*">>
            cat[k \in 0..n] == IF k = 0 THEN <<>> ELSE cat[k - 1] \o piece(k)
        IN /\ g = cat[n]
           /\ \A i \in 1..(Len(g) - 1) : ~(g[i] = "*" /\ g[i + 1] = "*")
           /\ p = PatWithExt => g = <<"test_", "*", ".", "log">>
           /\ p = PatEscapeMiss => g = <<"test_", "*", "Y", "*">>
           /\ p = PatManyStars => g = <<"test_", "*">>
           /\ parseGlobPattern(g) = g

C27_Witness ==
    /\ last.op = "glob"
    /\ last.data = PatEscapeMiss
    /\ last.post = <<"test_", "*", "Y", "*">>

C29_AsStated ==
    (opts.writeChSize > 0 /\ pc[Writer] = "done") =>
        Len(calls.handed) >= calls.sentAtClose

\* C29: in buffered mode the records enqueued so far are, in enqueue order,
\* those handed to the write path, the one the worker has received and not
\* yet handed over, and those in the channel; the worker that has seen quit
\* hands records over only until its drain timer fires, so when it has
\* exited the records still in the channel are never handed over, and the
\* records it did hand over are in a file.
C29_DrainUntilTimer ==
    opts.writeChSize > 0 =>
        LET held == IF pc[Writer] = "recv" THEN <<Tag(arg[Writer].data)>>
                    ELSE <<>>
            queued == [i \in 1..Len(writeCh) |-> Tag(writeCh[i])]
            OnDisk(tag) ==
                \E n \in DOMAIN fs :
                    \E i \in 1..Len(fs[n].content) : fs[n].content[i] = tag
        IN /\ calls.sent = calls.handed \o held \o queued
           /\ pc[Writer] = "done" =>
                  /\ Len(calls.sent) - Len(calls.handed) = Len(writeCh)
                  /\ \A i \in 1..Len(calls.handed) : OnDisk(calls.handed[i])

\* the worker has exited with a record in the channel that was enqueued
\* before Close was called
C29_Witness ==
    /\ pc[Writer] = "done"
    /\ writeCh # <<>>
    /\ calls.closes = 1
    /\ calls.sentAtClose = Len(calls.sent)
    /\ Len(calls.handed) < calls.sentAtClose

\* C30: a step of a mill cycle (taking the trigger and listing the files,
\* refreshing the symlink, removing files) leaves file, size,
\* currRotationTime, currFilename, currBaseFilename and currSequence as they
\* were, does not take the rotation lock (the symlink and the removal steps
\* can be taken while a caller holds it), and changes nothing but the
\* directory: the entry of the symlink is set, entries of listed files are
\* removed, no other entry changes.
C30_MillFrame ==
    [][LET cycle == pc[Miller] \in {"link", "retain"}
           taken == pc[Miller] = "loop" /\ millCh = 1 /\ millCh' = 0
           ends == cycle /\ pc'[Miller] # pc[Miller]
       IN /\ (taken \/ ends) =>
                 /\ UNCHANGED <<file, size, currRotationTime, currFilename,
                                currBaseFilename, currSequence, mu>>
                 /\ UNCHANGED <<opts, tzOffsetSeconds, wg, writeCh, quit,
                                discards, denied, clock, arg, drain, panicked,
                                calls, last, opened>>
                 /\ \A n \in DOMAIN fs' :
                        \/ n = opts.symlink /\ fs'[n].kind = "symlink"
                        \/ n \in DOMAIN fs /\ fs'[n] = fs[n]
                 /\ \A n \in (DOMAIN fs) \ (DOMAIN fs') :
                        \E i \in 1..Len(millFiles) : millFiles[i].path = n
          /\ (mu # Free /\ ~panicked /\ pc[Miller] = "link") =>
                 ENABLED MillLink
          /\ (mu # Free /\ ~panicked /\ pc[Miller] = "retain") =>
                 ENABLED MillRetain]_vars

\* a whole mill cycle has removed a file of the directory while the first
\* Write held the rotation lock
C30_Witness ==
    /\ mu = Caller
    /\ pc[Caller] = "write"
    /\ calls.writes = 1
    /\ calls.rotates = 0
    /\ calls.faults = 0
    /\ pc[Miller] = "loop"
    /\ millCh = 0
    /\ \E n \in DOMAIN dir0 : ~Exists(fs, n)

\* C31: at most one trigger is pending in millCh; a rotation whose trigger
\* finds one pending completes and leaves one pending; and, as long as
\* Close has not been called, a pending trigger is taken by the mill
\* goroutine, which lists the directory when it takes it, so after the
\* rotation that sent it.
C31_MillTrigger ==
    /\ [](millCh \in {0, 1})
    /\ [][(millCh = 1 /\ calls'.rotated = calls.rotated + 1) =>
              millCh' = 1]_vars
    /\ (millCh = 1) ~> (millCh = 0 \/ quit)

\* a Write and a Rotate have each sent a trigger before the mill goroutine
\* ran: one trigger is pending
C31_Witness ==
    /\ pc[Miller] = "spawned"
    /\ millCh = 1
    /\ calls.writes = 1
    /\ calls.rotates = 1
    /\ calls.rotated = 1
    /\ ~quit

\* C32: the step of a mill cycle in which link fails ends the cycle: the
\* goroutine is back in its loop without the retention having run, no entry
\* of the directory is removed or changed, and no caller sees the failure
\* (the result of the last call, the callers' positions and the lock are as
\* they were).  Every Write, Rotate and Close of a logger whose link always
\* fails returns without error.
C32_LinkFailure ==
    [][LET failing == /\ pc[Miller] = "link"
                      /\ link(fs, millFiles[1].path, opts.symlink).err # "nil"
       IN /\ (failing /\ pc'[Miller] # "link") =>
                 /\ pc'[Miller] = "loop"
                 /\ millFiles' = <<>>
                 /\ fs' = fs
                 /\ UNCHANGED <<last, calls, mu, panicked, file, size, quit>>
                 /\ \A p \in Producers : pc'[p] = pc[p]
          /\ (opts.symlink = AbsLink /\ last' # last) => last'.err = "nil"]_vars

\* the second Write of a logger whose link fails in every cycle has
\* returned without error; the files of the earlier run are all there
\* although maxBackups is 1, and there is no symlink
C32_Witness ==
    /\ opts.symlink = AbsLink
    /\ opts.maxBackups = 1
    /\ dir0 # EmptyDir
    /\ calls.writes = 2
    /\ last.op = "write"
    /\ last.err = "nil"
    /\ pc[Miller] = "loop"
    /\ millCh = 0
    /\ ~Exists(fs, opts.symlink)
    /\ \A n \in DOMAIN dir0 : Exists(fs, n)

\* C33: no path that is a symbolic link is a candidate of a mill cycle: the
\* list a cycle works on holds none; the target the cycle links to is not a
\* symbolic link; the retention removes none; and with maxBackups alone
\* the retention keeps the maxBackups newest regular files it listed,
\* however many symbolic links match the glob.
C33_SymlinksSkipped ==
    [][LET IsLink(n) == Exists(fs, n) /\ fs[n].kind = "symlink"
           listed == {millFiles[i].path : i \in 1..Len(millFiles)}
           listed1 == {millFiles'[i].path : i \in 1..Len(millFiles')}
           removed == (DOMAIN fs) \ (DOMAIN fs')
       IN /\ \A n \in listed1 : ~IsLink(n)
          /\ (pc[Miller] = "link" /\ pc'[Miller] # "link") =>
                 /\ ~IsLink(millFiles[1].path)
                 /\ fs'[opts.symlink].target = Base(millFiles[1].path)
          /\ (pc[Miller] = "retain" /\ pc'[Miller] # "retain") =>
                 /\ \A n \in removed : ~IsLink(n)
                 /\ (opts.maxAge = 0 /\ opts.maxBackups > 0) =>
                        listed \ removed =
                            {millFiles[i].path :
                                i \in 1..Len(millFiles) \cap 1..opts.maxBackups}]_vars

\* a second mill cycle has run its retention with the symlink and the
\* temporary link in the directory: both are there, with the one regular
\* file that maxBackups = 1 keeps
C33_Witness ==
    /\ opts.maxBackups = 1
    /\ dir0 = StaleDir
    /\ calls.writes + calls.rotates >= 2
    /\ pc[Miller] = "loop"
    /\ millCh = 0
    /\ Exists(fs, GlobbedLink)
    /\ Exists(fs, TmpLink)
    /\ Cardinality({n \in DOMAIN fs : fs[n].kind # "symlink"}) = 1
    /\ GlobMatch(globPattern, GlobbedLink)
    /\ GlobMatch(globPattern, TmpLink)

\* C34: in the order byModTime leaves the files base, base.1 and base.2 in,
\* of two files with equal modification times the one with the larger
\* overflow suffix comes first, the file without a suffix counting as 0
\* whatever the base is; when the three times are equal the order is
\* base.2, base.1, base.
C34_SuffixBreaksTies ==
    last.op = "sorted" =>
        LET base == last.data[1].path
            seq(f) == CHOOSE k \in 0..2 : f.path = genFilename(base, k)
            q == last.post
        IN /\ \A i, j \in 1..3 :
                  (i < j /\ q[i].mtime = q[j].mtime) => seq(q[i]) > seq(q[j])
           /\ (\A i \in 1..3 : q[i].mtime = q[1].mtime) =>
                  [i \in 1..3 |-> q[i].path] =
                      <<genFilename(base, 2), genFilename(base, 1), base>>

\* C35: once Close has closed quit, the mill goroutine and, in buffered
\* mode, the write goroutine each return in the end (unless a second Close
\* has panicked), whatever is enqueued or rotated while they drain.
C35_WorkersExit ==
    /\ quit ~> (panicked \/ pc[Miller] = "done")
    /\ quit ~> (panicked \/ pc[Writer] \in {"done", "none"})

\* both goroutines have returned although a record was enqueued after quit
\* was closed and is still in the channel
C35_Witness ==
    /\ quit
    /\ ~panicked
    /\ pc[Miller] = "done"
    /\ pc[Writer] = "done"
    /\ writeCh # <<>>
    /\ calls.sentAtClose < Len(calls.sent)

\* C36: the retention step of a mill cycle never removes the file the
\* Logger holds open: when l.file is open and currFilename exists before
\* the step, it exists after it.
C36_ActiveFileKept ==
    [][(pc[Miller] = "retain" /\ pc'[Miller] # "retain"
            /\ file.open /\ Exists(fs, currFilename)) =>
           Exists(fs', currFilename)]_vars

\* C37: once a Close has returned, a step that is not part of a Write or a
\* Rotate called after that Close leaves l.file absent and the regular
\* files as they are: the steps of a producer's own call (a synchronous
\* Write, a Rotate) and the write goroutine's steps for a record that was
\* sent after Close was called are the only ones that open, create or
\* write a file.
C37_ClosedStaysClosed ==
    [][LET sentBefore == {calls.sent[i] : i \in 1..calls.sentAtClose}
           regular(dir) == [n \in {m \in DOMAIN dir : dir[m].kind # "symlink"}
                               |-> dir[n].content]
           later == \/ calls'.rotates # calls.rotates
                    \/ calls'.writes # calls.writes
                    \/ pc[Caller] = "write"
                    \/ /\ pc[Writer] \in {"recv", "write"}
                       /\ Tag(arg[Writer].data) \notin sentBefore
       IN (calls.closed > 0 /\ ~panicked /\ ~later) =>
              /\ ~file.open => ~file'.open
              /\ regular(fs') = regular(fs)]_vars

\* C38: when a synchronous Write returns with l.file present (maxSize > 0),
\* the file at currFilename exists and l.size is its length; if that length
\* is above maxSize, the record of this Write is longer than maxSize and the
\* file holds what was written of it and nothing else.
C38_SizeTracksLength ==
    [][(last' # last /\ last'.op = "write" /\ file'.open) =>
           /\ Exists(fs', currFilename')
           /\ size' = Len(fs'[currFilename'].content)
           /\ size' > opts.maxSize =>
                  /\ Len(last'.data) > opts.maxSize
                  /\ fs'[currFilename'].content =
                         SubSeq(last'.data, 1, last'.n)]_vars

\* C39: every Write, Rotate and Close that a goroutine has begun returns,
\* whatever the mill and the write goroutine do or fail to do once they
\* have started; and a goroutine that holds mu in a Write can always take
\* its next step.
C39_CallsReturn ==
    /\ \A p \in Producers : (pc[p] # "idle") ~> (pc[p] = "idle")
    /\ [](\A p \in Producers :
              (mu = p /\ pc[p] = "write") =>
                  ENABLED WriteEnd(p, Len(arg[p].data), NoPlan))

\* a Close has returned on a buffered logger although the write goroutine
\* never took the record in the channel and neither goroutine has noticed
\* that quit is closed
C39_Witness ==
    /\ calls.closed = 1
    /\ \A p \in Producers : pc[p] = "idle"
    /\ writeCh # <<>>
    /\ millCh = 1
    /\ pc[Writer] = "loop"
    /\ pc[Miller] = "loop"
    /\ drain = {}

\* C40: whenever a Write or a Rotate of a logger with an interval sets a new
\* base filename, the offset it truncated with (tzOffsetSeconds) is the
\* offset of the clock's location at that instant, which genBaseFilename
\* expands with, and the base is the pattern expanded at the local
\* wall-clock start of the interval: the greatest multiple of the interval
\* not after the local second of the instant.
C40_OneOffset ==
    [][(maxIntervalSeconds > 0 /\ currBaseFilename' # currBaseFilename) =>
           LET local == clock.unix + NowOffset(clock)
               start == local - (local % maxIntervalSeconds)
           IN /\ tzOffsetSeconds = NowOffset(clock)
              /\ currBaseFilename' = FormatString(opts.pattern, start)]_vars

====
